---- MODULE Spec2Model ----
(***************************************************************************)
(* Model of the PDF extraction engine of src-tauri/src/parsers/pdf.rs:     *)
(* the content-stream walk, the cross-page noise filter, the paragraph     *)
(* assembler and its text normalisation, and parse_all.                    *)
(*                                                                         *)
(* A Rust String is a sequence of characters; a character is a one-letter  *)
(* TLA+ string, or a "U+xxxx" string for a character outside ASCII.        *)
(***************************************************************************)
EXTENDS Integers, Sequences, FiniteSets, TLC

VARIABLES
    pc,                    \* position of the running operation
    file,                  \* the PDF file at self.file_path (input)
    host,                  \* what running pdftotext on this host gives (input)
    scratch,               \* the files in the image output directory, [path, size]
    idx,                   \* extract_text_by_page: 0-based index of the page being walked
    op_i,                  \* number of operators of the page already replayed
    lines,                 \* the page's line list
    current_line,          \* the current-line accumulator
    inline_image_index,
    page_xobject_markers,  \* resource name -> image tokens (a function on the names that have tokens)
    used_xobject_names,
    raw_page_lines,
    cleaned_page_lines,
    pages,                 \* the (label, paragraphs) list being returned
    result,                \* extract_text_by_page's Result: "none" while running, "Ok", or "Err: ..."
    chapters,              \* parse_all's chapter tuples
    fn_in,                 \* arguments of the function under check (pure-function specifications)
    fn_out,                \* its return value
    rival                  \* a second caller of extract_text_by_page on the same file path

walk_vars == <<idx, op_i, lines, current_line, inline_image_index,
               page_xobject_markers, used_xobject_names>>
out_vars == <<raw_page_lines, cleaned_page_lines, pages, result, chapters>>
fn_vars == <<fn_in, fn_out>>
vars == <<pc, file, host, scratch, walk_vars, out_vars, fn_vars, rival>>

\* Option<T>: None, or Some(x)
None == <<>>
Some(x) == <<x>>

---------------------------------------------------------------------------
(* Characters and the std::str / char primitives the code uses.            *)

NBSP == "U+00A0"
EnDash == "U+2013"
CjkFigure == "U+56FE"
CjkTable == "U+8868"
EAcute == "U+00E9"

AsciiUpper == {"A","B","C","D","E","F","G","H","I","J","K","L","M",
               "N","O","P","Q","R","S","T","U","V","W","X","Y","Z"}
AsciiLower == {"a","b","c","d","e","f","g","h","i","j","k","l","m",
               "n","o","p","q","r","s","t","u","v","w","x","y","z"}
AsciiDigit == {"0","1","2","3","4","5","6","7","8","9"}
AsciiAlpha == AsciiUpper \cup AsciiLower

\* char::is_whitespace, on the characters of the model
Whitespace == {" ", "\t", "\n", "\r", "\f", NBSP}

\* bytes of a character in UTF-8: str::len counts bytes
Utf8Len(c) ==
    IF c \in {NBSP, EAcute} THEN 2
    ELSE IF c \in {EnDash, CjkFigure, CjkTable} THEN 3
    ELSE 1

StrLen(s) ==
    Len(s) + Cardinality({i \in 1..Len(s) : Utf8Len(s[i]) >= 2})
           + Cardinality({i \in 1..Len(s) : Utf8Len(s[i]) >= 3})

StartsWith(s, p) == Len(s) >= Len(p) /\ SubSeq(s, 1, Len(p)) = p
EndsWith(s, p) == Len(s) >= Len(p) /\ SubSeq(s, Len(s) - Len(p) + 1, Len(s)) = p

RECURSIVE TrimStart(_)
TrimStart(s) ==
    IF s # <<>> /\ Head(s) \in Whitespace THEN TrimStart(Tail(s)) ELSE s

RECURSIVE TrimEnd(_)
TrimEnd(s) ==
    IF s # <<>> /\ s[Len(s)] \in Whitespace THEN TrimEnd(SubSeq(s, 1, Len(s) - 1)) ELSE s

Trim(s) == TrimEnd(TrimStart(s))

ReplaceChar(s, from, to) == [i \in 1..Len(s) |-> IF s[i] = from THEN to ELSE s[i]]

\* str::replace(' ', "")
RemoveChar(s, c) == SelectSeq(s, LAMBDA x : x # c)

\* str::split_whitespace: the maximal runs of non-whitespace characters
TokenStarts(s) ==
    {i \in 1..Len(s) : s[i] \notin Whitespace /\ (i = 1 \/ s[i - 1] \in Whitespace)}
TokenEnd(s, i) ==
    CHOOSE j \in i..Len(s) :
        /\ \A k \in i..j : s[k] \notin Whitespace
        /\ j = Len(s) \/ s[j + 1] \in Whitespace
KthSmallest(S, k) == CHOOSE x \in S : Cardinality({y \in S : y < x}) = k - 1

SplitWhitespace(s) ==
    [k \in 1..Cardinality(TokenStarts(s)) |->
        SubSeq(s, KthSmallest(TokenStarts(s), k), TokenEnd(s, KthSmallest(TokenStarts(s), k)))]

\* [String]::join(sep)
RECURSIVE Join(_, _)
Join(toks, sep) ==
    IF toks = <<>> THEN <<>>
    ELSE IF Len(toks) = 1 THEN toks[1]
    ELSE toks[1] \o sep \o Join(Tail(toks), sep)

\* str::matches("  ").count(): non-overlapping occurrences, left to right
SpaceRunStart(s, i) ==
    CHOOSE j \in 1..i : (\A k \in j..i : s[k] = " ") /\ (j = 1 \/ s[j - 1] # " ")
CountDoubleSpaces(s) ==
    Cardinality({i \in 1..(Len(s) - 1) :
                    /\ s[i] = " " /\ s[i + 1] = " "
                    /\ (i - SpaceRunStart(s, i)) % 2 = 0})

AllChars(s, S) == \A i \in 1..Len(s) : s[i] \in S
AnyChar(s, S) == \E i \in 1..Len(s) : s[i] \in S

\* a string of n copies of c
Rep(c, n) == [i \in 1..n |-> c]

---------------------------------------------------------------------------
(* Text normalisation of the paragraph assembler.                          *)

normalize_whitespace(input) ==
    Trim(ReplaceChar(ReplaceChar(ReplaceChar(ReplaceChar(input,
        NBSP, " "), "\t", " "), "\r", " "), "\n", " "))

HeadingSuffixes ==
    << <<"R","E","P","O","R","T">>,
       <<"P","A","P","E","R">>,
       <<"A","B","S","T","R","A","C","T">>,
       <<"A","P","P","E","N","D","I","X">>,
       <<"I","N","T","R","O","D","U","C","T","I","O","N">>,
       <<"C","O","N","C","L","U","S","I","O","N">>,
       <<"C","O","N","C","L","U","S","I","O","N","S">>,
       <<"M","E","T","H","O","D">>,
       <<"M","E","T","H","O","D","S">>,
       <<"R","E","S","U","L","T">>,
       <<"R","E","S","U","L","T","S">> >>

RECURSIVE SplitHeadingFrom(_, _)
SplitHeadingFrom(word, k) ==
    IF k > Len(HeadingSuffixes) THEN word
    ELSE LET suffix == HeadingSuffixes[k] IN
         IF Len(word) > Len(suffix) + 3 /\ EndsWith(word, suffix)
         THEN SubSeq(word, 1, Len(word) - Len(suffix)) \o <<" ">> \o suffix
         ELSE SplitHeadingFrom(word, k + 1)

\* split_merged_uppercase_heading_word without the minimum prefix length
RECURSIVE SplitHeadingAnyPrefixFrom(_, _)
SplitHeadingAnyPrefixFrom(word, k) ==
    IF k > Len(HeadingSuffixes) THEN word
    ELSE LET suffix == HeadingSuffixes[k] IN
         IF Len(word) > Len(suffix) /\ EndsWith(word, suffix)
         THEN SubSeq(word, 1, Len(word) - Len(suffix)) \o <<" ">> \o suffix
         ELSE SplitHeadingAnyPrefixFrom(word, k + 1)
split_merged_uppercase_heading_word_any_prefix(word) == SplitHeadingAnyPrefixFrom(word, 1)

split_merged_uppercase_heading_word(word) == SplitHeadingFrom(word, 1)

\* the inner `loop` of collapse_spaced_uppercase_letters: from position j
\* (1-based), skip spaces, take the next upper-case letter if exactly one
\* space was skipped, and repeat; returns where the scan stopped
RECURSIVE SkipSpaces(_, _)
SkipSpaces(chars, j) ==
    IF j <= Len(chars) /\ chars[j] = " " THEN SkipSpaces(chars, j + 1) ELSE j

RECURSIVE ScanSpacedLetters(_, _, _)
ScanSpacedLetters(chars, j, letters) ==
    LET j2 == SkipSpaces(chars, j) IN
    IF (j2 - j) # 1 \/ j2 > Len(chars) \/ chars[j2] \notin AsciiUpper
    THEN [j |-> j2, letters |-> letters]
    ELSE ScanSpacedLetters(chars, j2 + 1, Append(letters, chars[j2]))

RECURSIVE CollapseFrom(_, _, _)
CollapseFrom(chars, i, out) ==
    IF i > Len(chars) THEN out
    ELSE IF chars[i] \in AsciiUpper
         THEN LET r == ScanSpacedLetters(chars, i + 1, <<chars[i]>>) IN
              IF Len(r.letters) >= 3
              THEN CollapseFrom(chars, r.j,
                       out \o split_merged_uppercase_heading_word(r.letters))
              ELSE CollapseFrom(chars, i + 1, Append(out, chars[i]))
         ELSE LET next_upper ==
                      CHOOSE j \in (i + 1)..(Len(chars) + 1) :
                          /\ \A k \in (i + 1)..(j - 1) : chars[k] \notin AsciiUpper
                          /\ j = Len(chars) + 1 \/ chars[j] \in AsciiUpper
              IN CollapseFrom(chars, next_upper, out \o SubSeq(chars, i, next_upper - 1))

collapse_spaced_uppercase_letters(input) == CollapseFrom(input, 1, <<>>)

normalize_pdf_line_text(line) == collapse_spaced_uppercase_letters(line)

\* append_pdf_line_to_paragraph testing is_ascii_alphabetic only
append_pdf_line_to_paragraph_any_letter(current, line0) ==
    LET line == Trim(line0) IN
    IF line = <<>> THEN current
    ELSE IF current = <<>> THEN line
    ELSE IF EndsWith(current, <<"-">>) /\ line[1] \in AsciiAlpha
         THEN SubSeq(current, 1, Len(current) - 1) \o line
         ELSE current \o <<" ">> \o line

append_pdf_line_to_paragraph(current, line0) ==
    LET line == Trim(line0) IN
    IF line = <<>> THEN current
    ELSE IF current = <<>> THEN line
    ELSE IF EndsWith(current, <<"-">>) /\ line[1] \in AsciiLower
         THEN SubSeq(current, 1, Len(current) - 1) \o line
         ELSE current \o <<" ">> \o line


UpperLetters == <<"A","B","C","D","E","F","G","H","I","J","K","L","M",
                  "N","O","P","Q","R","S","T","U","V","W","X","Y","Z">>
LowerLetters == <<"a","b","c","d","e","f","g","h","i","j","k","l","m",
                  "n","o","p","q","r","s","t","u","v","w","x","y","z">>

\* char::to_ascii_lowercase
ToAsciiLowerChar(c) ==
    IF c \in AsciiUpper
    THEN LowerLetters[CHOOSE i \in 1..26 : UpperLetters[i] = c]
    ELSE c

to_ascii_lowercase(s) == [i \in 1..Len(s) |-> ToAsciiLowerChar(s[i])]

CommonShortWords ==
    { <<"a">>, <<"a","n">>, <<"a","n","d">>, <<"a","s">>, <<"a","t">>, <<"b","y">>,
      <<"f","o","r">>, <<"f","r","o","m">>, <<"i","n">>, <<"i","n","t","o">>,
      <<"i","s">>, <<"i","t">>, <<"o","f">>, <<"o","n">>, <<"o","r">>,
      <<"t","h","e">>, <<"t","o">>, <<"w","i","t","h">> }

is_common_short_word(word) == to_ascii_lowercase(word) \in CommonShortWords

is_ascii_alpha_word(word) == word # <<>> /\ AllChars(word, AsciiAlpha)

should_merge_two_broken_tokens(left, right) ==
    IF ~is_ascii_alpha_word(left) \/ ~is_ascii_alpha_word(right) THEN FALSE
    ELSE IF ~(StrLen(left) >= 2 /\ StrLen(left) <= 4) \/ StrLen(right) < 2 THEN FALSE
    ELSE IF is_common_short_word(left) THEN FALSE
    ELSE LET total == StrLen(left) + StrLen(right)
             right_starts_lower == right[1] \in AsciiLower
             left_capitalized == left[1] \in AsciiUpper
             looks_like_title_split == left_capitalized /\ StrLen(right) <= 3 /\ total >= 5
             looks_like_body_split == total >= 6 /\ StrLen(right) >= 4
         IN right_starts_lower /\ (looks_like_body_split \/ looks_like_title_split)

\* should_merge_three_broken_tokens without the minimum total length
should_merge_three_broken_tokens_any_total(a, b, c) ==
    IF ~is_ascii_alpha_word(a) \/ ~is_ascii_alpha_word(b) \/ ~is_ascii_alpha_word(c) THEN FALSE
    ELSE IF ~(StrLen(a) >= 2 /\ StrLen(a) <= 3) \/ StrLen(b) # 1 \/ StrLen(c) < 3 THEN FALSE
    ELSE IF is_common_short_word(a) THEN FALSE
    ELSE c[1] \in AsciiLower

should_merge_three_broken_tokens(a, b, c) ==
    IF ~is_ascii_alpha_word(a) \/ ~is_ascii_alpha_word(b) \/ ~is_ascii_alpha_word(c) THEN FALSE
    ELSE IF ~(StrLen(a) >= 2 /\ StrLen(a) <= 3) \/ StrLen(b) # 1 \/ StrLen(c) < 3 THEN FALSE
    ELSE IF is_common_short_word(a) THEN FALSE
    ELSE c[1] \in AsciiLower /\ StrLen(a) + StrLen(b) + StrLen(c) >= 7

\* the `while i + 1 < tokens.len()` loop, i 0-based as in the code
RECURSIVE MergeBrokenTokens(_, _)
MergeBrokenTokens(tokens, i) ==
    IF ~(i + 1 < Len(tokens)) THEN tokens
    ELSE IF should_merge_two_broken_tokens(tokens[i + 1], tokens[i + 2])
         THEN MergeBrokenTokens(
                  SubSeq(tokens, 1, i) \o <<tokens[i + 1] \o tokens[i + 2]>>
                      \o SubSeq(tokens, i + 3, Len(tokens)), i)
    ELSE IF i + 2 < Len(tokens)
            /\ should_merge_three_broken_tokens(tokens[i + 1], tokens[i + 2], tokens[i + 3])
         THEN MergeBrokenTokens(
                  SubSeq(tokens, 1, i) \o <<tokens[i + 1] \o tokens[i + 2] \o tokens[i + 3]>>
                      \o SubSeq(tokens, i + 4, Len(tokens)), i)
    ELSE MergeBrokenTokens(tokens, i + 1)

normalize_pdf_paragraph_text(text) ==
    LET tokens == SplitWhitespace(text) IN
    IF Len(tokens) < 2 THEN Trim(text)
    ELSE Join(MergeBrokenTokens(tokens, 0), <<" ">>)

---------------------------------------------------------------------------
(* Line classification.                                                    *)

PDF_IMAGE_MARKER_PREFIX == <<"[","[","P","D","F","_","I","M","A","G","E",":">>

is_pdf_image_marker(line) ==
    StartsWith(line, PDF_IMAGE_MARKER_PREFIX) /\ EndsWith(line, <<"]","]">>)

MinTabularLen == 8

is_tabular_line(line) ==
    IF StrLen(line) < MinTabularLen THEN FALSE
    ELSE IF CountDoubleSpaces(line) >= 2 THEN TRUE
    ELSE LET toks == SplitWhitespace(line)
             alpha_tokens == Cardinality({k \in 1..Len(toks) : AnyChar(toks[k], AsciiAlpha)})
             numeric_tokens == Cardinality({k \in 1..Len(toks) : AnyChar(toks[k], AsciiDigit)})
         IN alpha_tokens >= 2 /\ numeric_tokens >= 2 /\ AnyChar(line, {" "})

MaxPageNumberLen == 24

\* is_probable_page_number without the "Page N" arm
is_probable_page_number_no_page_prefix(line) ==
    LET trimmed == Trim(line)
        compact == RemoveChar(trimmed, " ")
    IN IF trimmed = <<>> \/ StrLen(trimmed) > MaxPageNumberLen THEN FALSE
       ELSE IF AllChars(trimmed, AsciiDigit) THEN TRUE
       ELSE AllChars(compact, AsciiDigit \cup {"/", "-", EnDash, "_"})
            /\ AnyChar(compact, AsciiDigit)

is_probable_page_number(line) ==
    LET trimmed == Trim(line)
        page_prefix == <<"P","a","g","e"," ">>
        compact == RemoveChar(trimmed, " ")
    IN IF trimmed = <<>> \/ StrLen(trimmed) > MaxPageNumberLen THEN FALSE
       ELSE IF AllChars(trimmed, AsciiDigit) THEN TRUE
       ELSE IF StartsWith(trimmed, page_prefix)
               /\ AllChars(Trim(SubSeq(trimmed, Len(page_prefix) + 1, Len(trimmed))), AsciiDigit)
            THEN TRUE
       ELSE AllChars(compact, AsciiDigit \cup {"/", "-", EnDash, "_"})
            /\ AnyChar(compact, AsciiDigit)

\* 0-based edge indices of a page of `len` lines
edge_line_indices(len) ==
    IF len = 0 THEN {}
    ELSE {0} \cup (IF len > 1 THEN {1, len - 1} ELSE {})
             \cup (IF len > 3 THEN {len - 2} ELSE {})

MinNoisePages == 4
MaxNoiseLineLen == 90
MinNoiseSeen == 3

\* is_repeated_edge_noise asking for more than half of the occurrences at an edge
is_repeated_edge_noise_strict_ratio(line, total_pages, seen, seen_on_edge, is_edge_line) ==
    IF ~is_edge_line \/ total_pages < MinNoisePages THEN FALSE
    ELSE IF StrLen(line) > MaxNoiseLineLen THEN FALSE
    ELSE IF seen < MinNoiseSeen THEN FALSE
    ELSE seen_on_edge * 2 > seen

is_repeated_edge_noise(line, total_pages, seen, seen_on_edge, is_edge_line) ==
    IF ~is_edge_line \/ total_pages < MinNoisePages THEN FALSE
    ELSE IF StrLen(line) > MaxNoiseLineLen THEN FALSE
    ELSE IF seen < MinNoiseSeen THEN FALSE
    ELSE seen_on_edge * 2 >= seen

---------------------------------------------------------------------------
(* Cross-page noise filter.                                                *)

\* the (page, 0-based index) positions of the document's lines
LinePositions(page_lines) ==
    UNION {{<<p, i>> : i \in 0..(Len(page_lines[p]) - 1)} : p \in 1..Len(page_lines)}

NormalizedAt(page_lines, pos) == normalize_whitespace(page_lines[pos[1]][pos[2] + 1])

IsEdgePosition(page_lines, pos) == pos[2] \in edge_line_indices(Len(page_lines[pos[1]]))

\* the first pass of clean_page_lines: occurrences of a normalized line
line_counts(page_lines, normalized) ==
    Cardinality({pos \in LinePositions(page_lines) :
                    NormalizedAt(page_lines, pos) = normalized})

edge_counts(page_lines, normalized) ==
    Cardinality({pos \in LinePositions(page_lines) :
                    /\ NormalizedAt(page_lines, pos) = normalized
                    /\ IsEdgePosition(page_lines, pos)})

\* the closure with the image-token test moved behind the noise tests
keeps_line_marker_checked_last(page_lines, pos) ==
    LET normalized == NormalizedAt(page_lines, pos) IN
    IF normalized = <<>> THEN FALSE
    ELSE IF is_probable_page_number(normalized) THEN FALSE
    ELSE IF is_repeated_edge_noise(normalized, Len(page_lines),
                                   line_counts(page_lines, normalized),
                                   edge_counts(page_lines, normalized),
                                   IsEdgePosition(page_lines, pos)) THEN FALSE
    ELSE TRUE

\* the filter_map closure of the second pass: is the line at pos kept
keeps_line(page_lines, pos) ==
    LET normalized == NormalizedAt(page_lines, pos) IN
    IF normalized = <<>> THEN FALSE
    ELSE IF is_pdf_image_marker(normalized) THEN TRUE
    ELSE IF is_probable_page_number(normalized) THEN FALSE
    ELSE ~is_repeated_edge_noise(normalized, Len(page_lines),
                                 line_counts(page_lines, normalized),
                                 edge_counts(page_lines, normalized),
                                 IsEdgePosition(page_lines, pos))

RECURSIVE CleanPageFrom(_, _, _)
CleanPageFrom(page_lines, p, k) ==
    IF k >= Len(page_lines[p]) THEN <<>>
    ELSE (IF keeps_line(page_lines, <<p, k>>)
          THEN <<NormalizedAt(page_lines, <<p, k>>)>>
          ELSE <<>>) \o CleanPageFrom(page_lines, p, k + 1)

\* clean_page_lines leaving out the pages that were emptied
clean_page_lines_without_empty_pages(page_lines) ==
    IF page_lines = <<>> THEN page_lines
    ELSE SelectSeq([p \in 1..Len(page_lines) |-> CleanPageFrom(page_lines, p, 0)],
                   LAMBDA cleaned : cleaned # <<>>)

clean_page_lines(page_lines) ==
    IF page_lines = <<>> THEN page_lines
    ELSE [p \in 1..Len(page_lines) |-> CleanPageFrom(page_lines, p, 0)]

---------------------------------------------------------------------------
(* Paragraph assembler.                                                    *)

PLACEHOLDER ==
    <<"N","o"," ","r","e","a","d","a","b","l","e"," ","c","o","n","t","e","n","t"," ",
      "e","x","t","r","a","c","t","e","d"," ","f","r","o","m"," ","P","D","F",".">>

MaxParagraphLen == 800

\* ends_sentence without the colon
ends_sentence_without_colon(current) ==
    \/ EndsWith(current, <<".">>)
    \/ EndsWith(current, <<"!">>)
    \/ EndsWith(current, <<"?">>)

ends_sentence(current) ==
    \/ EndsWith(current, <<".">>)
    \/ EndsWith(current, <<"!">>)
    \/ EndsWith(current, <<"?">>)
    \/ EndsWith(current, <<":">>)

\* one iteration of the `for line in lines` loop of split_pdf_paragraphs
SplitLine(st, line) ==
    LET trimmed == Trim(line)
        line_is_table == is_tabular_line(trimmed)
        normalized_line == normalize_pdf_line_text(trimmed)
    IN
    IF is_pdf_image_marker(trimmed) THEN
        IF st.current # <<>>
        THEN [paragraphs |-> st.paragraphs \o <<Trim(st.current), trimmed>>,
              current |-> <<>>, current_is_table |-> FALSE]
        ELSE [st EXCEPT !.paragraphs = Append(@, trimmed)]
    ELSE IF trimmed = <<>> THEN
        IF st.current # <<>>
        THEN [paragraphs |-> Append(st.paragraphs, Trim(st.current)),
              current |-> <<>>, current_is_table |-> FALSE]
        ELSE st
    ELSE IF st.current = <<>> THEN
        [st EXCEPT !.current = normalized_line, !.current_is_table = line_is_table]
    ELSE IF st.current_is_table \/ line_is_table THEN
        IF st.current_is_table /\ line_is_table
        THEN [st EXCEPT !.current = @ \o <<"\n">> \o normalized_line]
        ELSE [paragraphs |-> Append(st.paragraphs, normalize_pdf_paragraph_text(st.current)),
              current |-> normalized_line, current_is_table |-> line_is_table]
    ELSE IF ends_sentence(st.current) \/ StrLen(st.current) > MaxParagraphLen THEN
        [st EXCEPT !.paragraphs = Append(@, normalize_pdf_paragraph_text(st.current)),
                   !.current = normalized_line]
    ELSE [st EXCEPT !.current = append_pdf_line_to_paragraph(@, normalized_line)]

RECURSIVE SplitLines(_, _)
SplitLines(st, ls) ==
    IF ls = <<>> THEN st ELSE SplitLines(SplitLine(st, Head(ls)), Tail(ls))

\* split_pdf_paragraphs without the placeholder of lines 301-303
split_pdf_paragraphs_no_placeholder(ls) ==
    LET st == SplitLines([paragraphs |-> <<>>, current |-> <<>>,
                          current_is_table |-> FALSE], ls)
    IN IF st.current # <<>>
       THEN Append(st.paragraphs, normalize_pdf_paragraph_text(st.current))
       ELSE st.paragraphs

split_pdf_paragraphs(ls) ==
    LET st == SplitLines([paragraphs |-> <<>>, current |-> <<>>,
                          current_is_table |-> FALSE], ls)
        paragraphs == IF st.current # <<>>
                      THEN Append(st.paragraphs, normalize_pdf_paragraph_text(st.current))
                      ELSE st.paragraphs
    IN IF paragraphs = <<>> THEN <<PLACEHOLDER>> ELSE paragraphs

---------------------------------------------------------------------------
(* Image Codec Resolver and Resource Graph Walker.                         *)
(* An image is a record: raw_ok (raw_image_data succeeds), filter,         *)
(* pixels_ok (image_data succeeds), color_space, bits_per_component,       *)
(* width, height, data_len (bytes of the raw data and of the decoded       *)
(* pixels), write_ok (fs::write of its file succeeds).                     *)

DigitChars == <<"0","1","2","3","4","5","6","7","8","9">>

\* Display of a usize
RECURSIVE Dec(_)
Dec(n) ==
    IF n < 10 THEN <<DigitChars[n + 1]>>
    ELSE Dec(n \div 10) \o <<DigitChars[(n % 10) + 1]>>

sanitize_filename(name) ==
    LET out == [i \in 1..Len(name) |->
                   IF name[i] \in AsciiAlpha \cup AsciiDigit \cup {"-", "_", "."}
                   THEN name[i] ELSE "_"]
    IN IF out = <<>> THEN <<"p","d","f">> ELSE out

page_idx_label(page_idx) == <<"p">> \o Dec(page_idx + 1)

\* build_pdf_image_output_dir(file_path): one directory per source path
image_output_dir == <<"/","t","m","p","/","d">>

PathJoin(dir, name) == dir \o <<"/">> \o name

MarkerOf(abs_path) == PDF_IMAGE_MARKER_PREFIX \o abs_path \o <<"]","]">>

NoMarker == [marker |-> None, files |-> {}]

\* the three arms that write a file: the name carries the byte length
\* WriteImage that returns the token although fs::write failed
WriteImage_ignoring_write_failure(image, page_label, image_name, n, ext) ==
    LET abs_path == PathJoin(image_output_dir,
                        page_label \o <<"_">> \o sanitize_filename(image_name)
                            \o <<"_">> \o Dec(n) \o ext)
    IN [marker |-> Some(MarkerOf(abs_path)),
        files |-> IF image.write_ok THEN {[path |-> abs_path, size |-> n]} ELSE {}]

WriteImage(image, page_label, image_name, n, ext) ==
    LET abs_path == PathJoin(image_output_dir,
                        page_label \o <<"_">> \o sanitize_filename(image_name)
                            \o <<"_">> \o Dec(n) \o ext)
    IN IF ~image.write_ok THEN NoMarker
       ELSE [marker |-> Some(MarkerOf(abs_path)), files |-> {[path |-> abs_path, size |-> n]}]

Min(a, b) == IF a < b THEN a ELSE b

\* length of expand_mono_bitmap's result
expand_mono_bitmap_len(input_len, target_pixels) == Min(target_pixels, 8 * input_len)

\* encode_pdf_image_png taking the gray samples without counting them
encode_pdf_image_png_uncounted_gray(image, pixels_len) ==
    LET width == image.width
        height == image.height
        bpc == IF image.bits_per_component = None THEN 8 ELSE image.bits_per_component[1]
        color_space == IF image.color_space = None THEN "DeviceRGB" ELSE image.color_space[1]
    IN IF width = 0 \/ height = 0 THEN None
       ELSE IF color_space = "DeviceRGB" /\ bpc = 8
            THEN (IF pixels_len < width * height * 3 THEN None ELSE Some(width * height * 3))
       ELSE IF color_space = "DeviceGray" /\ bpc \in {1, 8}
            THEN Some(width * height)
       ELSE None

\* encode_pdf_image_png: None, or Some(number of samples encoded); the size of
\* the PNG stream is taken to be the size of its sample buffer
encode_pdf_image_png(image, pixels_len) ==
    LET width == image.width
        height == image.height
        bpc == IF image.bits_per_component = None THEN 8 ELSE image.bits_per_component[1]
        color_space == IF image.color_space = None THEN "DeviceRGB" ELSE image.color_space[1]
    IN IF width = 0 \/ height = 0 THEN None
       ELSE IF color_space = "DeviceRGB" /\ bpc = 8
            THEN (IF pixels_len < width * height * 3 THEN None ELSE Some(width * height * 3))
       ELSE IF color_space = "DeviceGray" /\ bpc = 8
            THEN (IF pixels_len < width * height THEN None ELSE Some(width * height))
       ELSE IF color_space = "DeviceGray" /\ bpc = 1
            THEN (IF expand_mono_bitmap_len(pixels_len, width * height) # width * height
                  THEN None ELSE Some(width * height))
       ELSE None

\* build_image_marker without the JBIG2Decode arm: the image falls to the decode arm
build_image_marker_decodes_jbig2(image, page_label, image_name) ==
    IF ~image.raw_ok THEN NoMarker
    ELSE IF image.filter = "DCTDecode"
         THEN WriteImage(image, page_label, image_name, image.data_len, <<".","j","p","g">>)
    ELSE IF image.filter = "JPXDecode"
         THEN WriteImage(image, page_label, image_name, image.data_len, <<".","j","p","2">>)
    ELSE IF ~image.pixels_ok THEN NoMarker
    ELSE LET png_bytes == encode_pdf_image_png(image, image.data_len) IN
         IF png_bytes = None THEN NoMarker
         ELSE WriteImage(image, page_label, image_name, png_bytes[1], <<".","p","n","g">>)

build_image_marker(image, page_label, image_name) ==
    IF ~image.raw_ok THEN NoMarker
    ELSE IF image.filter = "DCTDecode"
         THEN WriteImage(image, page_label, image_name, image.data_len, <<".","j","p","g">>)
    ELSE IF image.filter = "JPXDecode"
         THEN WriteImage(image, page_label, image_name, image.data_len, <<".","j","p","2">>)
    ELSE IF image.filter = "JBIG2Decode" THEN NoMarker
    ELSE IF ~image.pixels_ok THEN NoMarker
    ELSE LET png_bytes == encode_pdf_image_png(image, image.data_len) IN
         IF png_bytes = None THEN NoMarker
         ELSE WriteImage(image, page_label, image_name, png_bytes[1], <<".","p","n","g">>)

\* tokens and written files accumulated by a walk
NoMarkers == [markers |-> <<>>, files |-> {}]

AddMarker(acc, r) ==
    [markers |-> acc.markers \o r.marker,
     files |-> acc.files \cup r.files]

AddMarkers(acc, r) == [markers |-> acc.markers \o r.markers, files |-> acc.files \cup r.files]

MaxFormDepth == 6

Img(filter, color_space, bpc, width, height, data_len) ==
    [raw_ok |-> TRUE, filter |-> filter, pixels_ok |-> TRUE, color_space |-> Some(color_space),
     bits_per_component |-> Some(bpc), width |-> width, height |-> height,
     data_len |-> data_len, write_ok |-> TRUE]

ImgJpeg == Img("DCTDecode", "DeviceRGB", 8, 1, 1, 5)
ImgGray == Img("FlateDecode", "DeviceGray", 8, 2, 1, 2)
ImgJbig2 == Img("JBIG2Decode", "DeviceGray", 1, 8, 1, 1)
ImgEmptyJpeg == Img("DCTDecode", "DeviceRGB", 8, 1, 1, 0)
ImgCmyk == Img("FlateDecode", "DeviceCMYK", 8, 1, 1, 4)
ImgUnreadable == [ImgJpeg EXCEPT !.raw_ok = FALSE]
ImgUndecodable == [ImgGray EXCEPT !.pixels_ok = FALSE]
ImgNoWrite == [ImgJpeg EXCEPT !.write_ok = FALSE]

\* the images no file can be produced for, one per cause
UnresolvableImages == {ImgJbig2, ImgCmyk, ImgUnreadable, ImgUndecodable, ImgNoWrite}

NameA == <<"A">>
NameF == <<"F">>
NameIm1 == <<"I","m","1">>
NameIm2 == <<"I","m","2">>
NameIm3 == <<"I","m","3">>
NameFm == <<"F","m">>
NameX == <<"X"," ","1">>

\* the file's object graph: what file.get(ref) resolves to (None: an error).
\* "form" replays itself through its own resource F.
Resolve(ref) ==
    CASE ref = "jpeg" -> Some([kind |-> "Image", image |-> ImgJpeg])
      [] ref = "gray" -> Some([kind |-> "Image", image |-> ImgGray])
      [] ref = "jbig2" -> Some([kind |-> "Image", image |-> ImgJbig2])
      [] ref = "cmyk" -> Some([kind |-> "Image", image |-> ImgCmyk])
      [] ref = "unreadable" -> Some([kind |-> "Image", image |-> ImgUnreadable])
      [] ref = "undecodable" -> Some([kind |-> "Image", image |-> ImgUndecodable])
      [] ref = "nowrite" -> Some([kind |-> "Image", image |-> ImgNoWrite])
      [] ref = "postscript" -> Some([kind |-> "Postscript"])
      [] ref = "form" ->
            Some([kind |-> "Form", ops_ok |-> TRUE,
             ops |-> << [op |-> "InlineImage", image |-> ImgGray],
                        [op |-> "XObject", name |-> NameA],
                        [op |-> "InlineImage", image |-> ImgJbig2],
                        [op |-> "XObject", name |-> NameF],
                        [op |-> "XObject", name |-> NameIm1] >>,
             resources |-> Some(NameA :> "nowrite" @@ NameF :> "form")])
      [] ref = "badform" ->
            Some([kind |-> "Form", ops_ok |-> FALSE, ops |-> <<>>, resources |-> None])
      [] OTHER -> None

RECURSIVE collect_markers_from_form(_, _, _)
RECURSIVE FormOpsFrom(_, _, _, _, _, _)

FormOpsFrom(form, page_label, depth, k, inline_idx, acc) ==
    IF k > Len(form.ops) THEN acc
    ELSE LET op == form.ops[k] IN
         IF op.op = "InlineImage"
         THEN FormOpsFrom(form, page_label, depth, k + 1, inline_idx + 1,
                  AddMarker(acc, build_image_marker(op.image, page_label,
                      <<"f","o","r","m","_","i","n","l","i","n","e","_">> \o Dec(depth)
                          \o <<"_">> \o Dec(inline_idx))))
         ELSE IF op.op = "XObject"
         THEN IF \/ form.resources = None
                 \/ op.name \notin DOMAIN form.resources[1]
                 \/ Resolve(form.resources[1][op.name]) = None
              THEN FormOpsFrom(form, page_label, depth, k + 1, inline_idx, acc)
              ELSE LET xobj == Resolve(form.resources[1][op.name])[1] IN
                   FormOpsFrom(form, page_label, depth, k + 1, inline_idx,
                       IF xobj.kind = "Image"
                       THEN AddMarker(acc, build_image_marker(xobj.image, page_label,
                                <<"f","o","r","m","_">> \o Dec(depth) \o <<"_">> \o op.name))
                       ELSE IF xobj.kind = "Form"
                       THEN AddMarkers(acc,
                                collect_markers_from_form(xobj, page_label, depth + 1))
                       ELSE acc)
         ELSE FormOpsFrom(form, page_label, depth, k + 1, inline_idx, acc)

\* collect_markers_from_form with the depth test off by one
collect_markers_from_form_one_level_deeper(form, page_label, depth) ==
    IF depth > MaxFormDepth THEN NoMarkers
    ELSE IF ~form.ops_ok THEN NoMarkers
    ELSE FormOpsFrom(form, page_label, depth, 1, 0, NoMarkers)

collect_markers_from_form(form, page_label, depth) ==
    IF depth >= MaxFormDepth THEN NoMarkers
    ELSE IF ~form.ops_ok THEN NoMarkers
    ELSE FormOpsFrom(form, page_label, depth, 1, 0, NoMarkers)

\* the body of the `for (obj_name, obj_ref)` loop of collect_page_image_markers
XObjectMarkers(page, obj_name, page_label) ==
    LET got == Resolve(page.xobjects[obj_name])
        xobject == got[1]
    IN
    IF got = None THEN NoMarkers
    ELSE IF xobject.kind = "Image"
         THEN AddMarker(NoMarkers, build_image_marker(xobject.image, page_label, obj_name))
    ELSE IF xobject.kind = "Form"
         THEN collect_markers_from_form(xobject, page_label, 0)
    ELSE NoMarkers

collect_page_image_markers(page, page_label) ==
    IF ~page.resources_ok THEN [markers |-> <<>>, files |-> {}]
    ELSE LET named == {n \in DOMAIN page.xobjects :
                          XObjectMarkers(page, n, page_label).markers # <<>>}
         IN [markers |-> [n \in named |-> XObjectMarkers(page, n, page_label).markers],
             files |-> UNION {XObjectMarkers(page, n, page_label).files :
                                 n \in DOMAIN page.xobjects}]

---------------------------------------------------------------------------
(* Content Stream Walker.                                                  *)

append_text_fragment(line, fragment0) ==
    LET fragment == Trim(fragment0) IN
    IF fragment = <<>> THEN line
    ELSE (IF line # <<>> /\ ~EndsWith(line, <<" ">>) THEN Append(line, " ") ELSE line)
             \o fragment

\* flush_line: the new line list; the accumulator is cleared by the caller
flush_line(ls, cur) ==
    LET normalized == normalize_whitespace(cur) IN
    IF normalized # <<>> THEN Append(ls, normalized) ELSE ls

\* the Text parts of a TextDrawAdjusted array appended in order
RECURSIVE AppendAdjusted(_, _)
AppendAdjusted(line, array) ==
    IF array = <<>> THEN line
    ELSE AppendAdjusted(
             IF Head(array).part = "Text"
             THEN append_text_fragment(line, Head(array).text) ELSE line,
             Tail(array))

\* the orders in which a HashMap over the keys S can be iterated
Orderings(S) ==
    {o \in [1..Cardinality(S) -> S] : \A i, j \in DOMAIN o : i # j => o[i] # o[j]}

RECURSIVE ConcatMarkers(_, _)
ConcatMarkers(markers, order) ==
    IF order = <<>> THEN <<>>
    ELSE markers[Head(order)] \o ConcatMarkers(markers, Tail(order))

---------------------------------------------------------------------------
(* The external text tool.                                                 *)

\* str::split(sep): the pieces between separators (always at least one)
RECURSIVE SplitOn(_, _, _, _)
SplitOn(s, sep, piece, acc) ==
    IF s = <<>> THEN Append(acc, piece)
    ELSE IF Head(s) = sep THEN SplitOn(Tail(s), sep, <<>>, Append(acc, piece))
    ELSE SplitOn(Tail(s), sep, Append(piece, Head(s)), acc)

RECURSIVE TrimEndCR(_)
TrimEndCR(s) ==
    IF s # <<>> /\ s[Len(s)] = "\r" THEN TrimEndCR(SubSeq(s, 1, Len(s) - 1)) ELSE s

\* segment.lines() followed by trim_end_matches('\r')
SegmentLines(segment) ==
    LET pieces == SplitOn(segment, "\n", <<>>, <<>>)
        kept == IF pieces[Len(pieces)] = <<>>
                THEN SubSeq(pieces, 1, Len(pieces) - 1) ELSE pieces
    IN [k \in 1..Len(kept) |-> TrimEndCR(kept[k])]

\* extract_lines_with_pdftotext taking the output whatever the exit status
extract_lines_with_pdftotext_any_status(run) ==
    IF ~(run.spawn_ok[1] \/ run.spawn_ok[2]) THEN None
    ELSE LET segments == SplitOn(run.stdout, "\f", <<>>, <<>>)
             has_text(k) == \E i \in 1..Len(SegmentLines(segments[k])) :
                                Trim(SegmentLines(segments[k])[i]) # <<>>
             kept == SelectSeq([k \in 1..Len(segments) |-> k], has_text)
         IN Some([k \in 1..Len(kept) |-> SegmentLines(segments[kept[k]])])

\* run is the host's answer: spawn_ok[k] says whether candidate command k could be
\* started, success and stdout are the exit status and output of the one started
extract_lines_with_pdftotext(run) ==
    IF ~(run.spawn_ok[1] \/ run.spawn_ok[2]) THEN None
    ELSE IF ~run.success THEN None
    ELSE LET segments == SplitOn(run.stdout, "\f", <<>>, <<>>)
             has_text(k) == \E i \in 1..Len(SegmentLines(segments[k])) :
                                Trim(SegmentLines(segments[k])[i]) # <<>>
             kept == SelectSeq([k \in 1..Len(segments) |-> k], has_text)
         IN Some([k \in 1..Len(kept) |-> SegmentLines(segments[kept[k]])])

extract_with_system_tools(run) == extract_lines_with_pdftotext(run)

---------------------------------------------------------------------------
(* Document assembly.                                                      *)

PageLabel(n) == <<"P","a","g","e"," ">> \o Dec(n)

\* the tail shared by both strategies: split every cleaned page, label the
\* pages, and fall back to one placeholder page
assemble_pages(cleaned) ==
    LET labelled == [k \in 1..Len(cleaned) |->
                        [title |-> PageLabel((k - 1) + 1),
                         paragraphs |-> split_pdf_paragraphs(cleaned[k])]]
    IN IF labelled = <<>>
       THEN <<[title |-> PageLabel(1), paragraphs |-> <<PLACEHOLDER>>]>>
       ELSE labelled

\* parse_all with the href built from the 0-based order_index
parse_all_chapters_zero_based_href(ps) ==
    [k \in 1..Len(ps) |->
        [title |-> ps[k].title,
         order_index |-> k - 1,
         href |-> <<"p","a","g","e">> \o Dec(k - 1),
         paragraphs |-> ps[k].paragraphs]]

\* the loop of parse_all over the (title, paragraphs) list
parse_all_chapters(ps) ==
    [k \in 1..Len(ps) |->
        [title |-> ps[k].title,
         order_index |-> k - 1,
         href |-> <<"p","a","g","e">> \o Dec((k - 1) + 1),
         paragraphs |-> ps[k].paragraphs]]

---------------------------------------------------------------------------
(* The files and host answers the model is run on.                         *)

MaxOps == 3      \* operators of a generated single-page file
MaxPages == 2    \* pages of a file put together from PagePool
ManyPages == 11  \* pages of the one long file

OpTextDraw(t) == [op |-> "TextDraw", text |-> t]
OpXObject(n) == [op |-> "XObject", name |-> n]
OpInlineImage(i) == [op |-> "InlineImage", image |-> i]
OpTextNewline == [op |-> "TextNewline"]
OpOther == [op |-> "Other"]

OpPool ==
    { OpTextDraw(<<"a","b">>),
      [op |-> "TextDrawAdjusted",
       array |-> << [part |-> "Text", text |-> <<"c"," ">>], [part |-> "Spacing"],
                    [part |-> "Text", text |-> <<"d",".">>] >>],
      OpTextNewline,
      OpXObject(NameIm1),
      OpXObject(NameIm2),
      OpInlineImage(ImgGray),
      OpInlineImage(ImgUndecodable) }

PageOf(ops, xobjects) ==
    [page_ok |-> TRUE, resources_ok |-> TRUE,
     contents |-> Some([ops_ok |-> TRUE, ops |-> ops]), xobjects |-> xobjects]

GeneratedPages ==
    {PageOf(ops, NameIm1 :> "jpeg" @@ NameIm2 :> "jbig2") :
        ops \in UNION {[1..n -> OpPool] : n \in 0..MaxOps}}

PgProse ==
    PageOf(<< OpTextDraw(<<"h","u","-">>), OpTextNewline,
              OpTextDraw(<<"m","a","n",".">>), OpOther, OpTextNewline,
              OpTextDraw(<<"7">>) >>, <<>>)

PgFigures ==
    PageOf(<< OpTextDraw(<<"a","b">>), OpXObject(NameFm), OpInlineImage(ImgNoWrite),
              OpTextDraw(<<"c","d">>), OpXObject(NameIm2), OpXObject(NameA),
              OpInlineImage(ImgJpeg), OpXObject(NameX), OpInlineImage(ImgEmptyJpeg) >>,
           NameFm :> "form" @@ NameIm1 :> "unreadable" @@ NameIm2 :> "cmyk"
               @@ NameIm3 :> "gray" @@ NameF :> "badform" @@ NameX :> "postscript"
               @@ NameA :> "dangling")

PgBadContent ==
    [PageOf(<<>>, NameIm1 :> "jpeg") EXCEPT !.contents = Some([ops_ok |-> FALSE, ops |-> <<>>])]

PgBadPage == [PageOf(<<>>, <<>>) EXCEPT !.page_ok = FALSE]

PgNoContents == [PageOf(<<>>, NameIm1 :> "jpeg") EXCEPT !.contents = None]

PgBadResources ==
    [PageOf(<< OpTextDraw(<<"x">>), OpXObject(NameIm1) >>, NameIm1 :> "jpeg")
        EXCEPT !.resources_ok = FALSE]

\* two image resources that no operator draws
PgUndrawn ==
    PageOf(<< OpTextDraw(<<"a","b">>), OpTextDraw(<<"\t","e"," "," ","f",NBSP>>) >>,
           NameIm1 :> "jpeg" @@ NameIm3 :> "gray")

PagePool ==
    {PgProse, PgFigures, PgBadContent, PgBadPage, PgNoContents, PgBadResources, PgUndrawn}

Files ==
    {[openable |-> FALSE, pages |-> <<>>]}
    \cup {[openable |-> TRUE, pages |-> <<pg>>] : pg \in GeneratedPages}
    \cup {[openable |-> TRUE, pages |-> ps] : ps \in UNION {[1..n -> PagePool] : n \in 0..MaxPages}}
    \cup {[openable |-> TRUE, pages |-> [k \in 1..ManyPages |-> PgNoContents]]}

\* what pdftotext can answer
ToolStdouts ==
    { <<>>,
      <<"a","b","\r","\n","\n","4","2","\n","\f">>,
      <<" ","\n","\f","a","-","\n","b",".","\n","\f">> }

ToolRuns ==
    {[spawn_ok |-> <<FALSE, FALSE>>, success |-> FALSE, stdout |-> <<>>],
     [spawn_ok |-> <<FALSE, TRUE>>, success |-> FALSE, stdout |-> <<"a","b">>]}
    \cup {[spawn_ok |-> <<TRUE, TRUE>>, success |-> TRUE, stdout |-> t] : t \in ToolStdouts}

\* the second caller before it has called: began and ended record where the
\* first caller stood when the second one started and returned
NoRival == [pc |-> "idle", idx |-> 0, began |-> "none", ended |-> "none"]

StaleFile ==
    [path |-> PathJoin(image_output_dir, <<"o","l","d",".","p","n","g">>), size |-> 1]

---------------------------------------------------------------------------
(* extract_text_by_page and parse_all, step by step.                       *)

Init ==
    /\ pc = "start"
    /\ file \in Files
    /\ host \in ToolRuns
    /\ scratch = {StaleFile}
    /\ idx = 0
    /\ op_i = 0
    /\ lines = <<>>
    /\ current_line = <<>>
    /\ inline_image_index = 0
    /\ page_xobject_markers = <<>>
    /\ used_xobject_names = {}
    /\ raw_page_lines = <<>>
    /\ cleaned_page_lines = <<>>
    /\ pages = <<>>
    /\ result = "none"
    /\ chapters = <<>>
    /\ fn_in = <<>>
    /\ fn_out = <<>>
    /\ rival = NoRival

\* lines 71-73: the image output directory is removed and created again
ClearScratch ==
    /\ pc = "start"
    /\ scratch' = {}
    /\ pc' = "tool"
    /\ UNCHANGED <<file, walk_vars, out_vars, fn_vars, host, rival>>

\* lines 75-93: the external tool, and the whole branch taken when it answers
ExtractWithSystemTools ==
    /\ pc = "tool"
    /\ LET got == extract_with_system_tools(host) IN
       IF got # None
       THEN /\ raw_page_lines' = got[1]
            /\ cleaned_page_lines' = clean_page_lines(got[1])
            /\ pages' = assemble_pages(clean_page_lines(got[1]))
            /\ result' = "Ok"
            /\ pc' = "returned"
       ELSE /\ pc' = "open"
            /\ UNCHANGED <<raw_page_lines, cleaned_page_lines, pages, result>>
    /\ UNCHANGED <<file, scratch, walk_vars, chapters, fn_vars, host, rival>>

\* lines 95-98
OpenFile ==
    /\ pc = "open"
    /\ IF file.openable
       THEN /\ pc' = "page"
            /\ result' = result
       ELSE /\ pc' = "returned"
            /\ result' = "Err: Failed to open PDF"
    /\ UNCHANGED <<file, scratch, walk_vars, raw_page_lines, cleaned_page_lines,
                   pages, chapters, fn_vars, host, rival>>

ThisPage == file.pages[idx + 1]
ThisOps == ThisPage.contents[1].ops

\* lines 100-123: the head of the page loop
BeginPage ==
    /\ pc = "page"
    /\ idx < Len(file.pages)
    /\ lines' = <<>>
    /\ current_line' = <<>>
    /\ op_i' = 0
    /\ inline_image_index' = 0
    /\ used_xobject_names' = {}
    /\ IF ~ThisPage.page_ok
       THEN /\ result' = "Err: Failed to read page"
            /\ pc' = "returned"
            /\ UNCHANGED <<scratch, page_xobject_markers>>
       ELSE IF ThisPage.contents = None
       THEN /\ pc' = "page_end"
            /\ UNCHANGED <<scratch, page_xobject_markers, result>>
       ELSE LET got == collect_page_image_markers(ThisPage, page_idx_label(idx)) IN
            /\ page_xobject_markers' = got.markers
            /\ scratch' = scratch \cup got.files
            /\ IF ThisPage.contents[1].ops_ok
               THEN pc' = "ops" /\ result' = result
               ELSE pc' = "returned" /\ result' = "Err: Failed to parse content stream"
    /\ UNCHANGED <<file, idx, raw_page_lines, cleaned_page_lines, pages, chapters, fn_vars, host, rival>>

\* WalkOp that does not record the name an XObject operator drew
WalkOp_name_not_recorded ==
    /\ pc = "ops"
    /\ op_i < Len(ThisOps)
    /\ op_i' = op_i + 1
    /\ LET op == ThisOps[op_i + 1] IN
       IF op.op = "TextDraw"
       THEN /\ current_line' = append_text_fragment(current_line, op.text)
            /\ UNCHANGED <<lines, used_xobject_names, inline_image_index, scratch>>
       ELSE IF op.op = "TextDrawAdjusted"
       THEN /\ current_line' = AppendAdjusted(current_line, op.array)
            /\ UNCHANGED <<lines, used_xobject_names, inline_image_index, scratch>>
       ELSE IF op.op = "TextNewline"
       THEN /\ lines' = flush_line(lines, current_line)
            /\ current_line' = <<>>
            /\ UNCHANGED <<used_xobject_names, inline_image_index, scratch>>
       ELSE IF op.op = "XObject"
       THEN IF op.name \in DOMAIN page_xobject_markers
            THEN /\ lines' = flush_line(lines, current_line) \o page_xobject_markers[op.name]
                 /\ current_line' = <<>>
                 /\ used_xobject_names' = used_xobject_names
                 /\ UNCHANGED <<inline_image_index, scratch>>
            ELSE UNCHANGED <<lines, current_line, used_xobject_names,
                             inline_image_index, scratch>>
       ELSE IF op.op = "InlineImage"
       THEN LET got == build_image_marker(op.image, page_idx_label(idx),
                           <<"i","n","l","i","n","e">> \o Dec(inline_image_index)) IN
            /\ lines' = lines \o got.marker
            /\ scratch' = scratch \cup got.files
            /\ inline_image_index' = inline_image_index + 1
            /\ UNCHANGED <<current_line, used_xobject_names>>
       ELSE UNCHANGED <<lines, current_line, used_xobject_names, inline_image_index, scratch>>
    /\ pc' = pc
    /\ UNCHANGED <<file, idx, page_xobject_markers, out_vars, fn_vars, host, rival>>

\* lines 124-157: one operator of the page
WalkOp ==
    /\ pc = "ops"
    /\ op_i < Len(ThisOps)
    /\ op_i' = op_i + 1
    /\ LET op == ThisOps[op_i + 1] IN
       IF op.op = "TextDraw"
       THEN /\ current_line' = append_text_fragment(current_line, op.text)
            /\ UNCHANGED <<lines, used_xobject_names, inline_image_index, scratch>>
       ELSE IF op.op = "TextDrawAdjusted"
       THEN /\ current_line' = AppendAdjusted(current_line, op.array)
            /\ UNCHANGED <<lines, used_xobject_names, inline_image_index, scratch>>
       ELSE IF op.op = "TextNewline"
       THEN /\ lines' = flush_line(lines, current_line)
            /\ current_line' = <<>>
            /\ UNCHANGED <<used_xobject_names, inline_image_index, scratch>>
       ELSE IF op.op = "XObject"
       THEN IF op.name \in DOMAIN page_xobject_markers
            THEN /\ lines' = flush_line(lines, current_line) \o page_xobject_markers[op.name]
                 /\ current_line' = <<>>
                 /\ used_xobject_names' = used_xobject_names \cup {op.name}
                 /\ UNCHANGED <<inline_image_index, scratch>>
            ELSE UNCHANGED <<lines, current_line, used_xobject_names,
                             inline_image_index, scratch>>
       ELSE IF op.op = "InlineImage"
       THEN LET got == build_image_marker(op.image, page_idx_label(idx),
                           <<"i","n","l","i","n","e">> \o Dec(inline_image_index)) IN
            /\ lines' = lines \o got.marker
            /\ scratch' = scratch \cup got.files
            /\ inline_image_index' = inline_image_index + 1
            /\ UNCHANGED <<current_line, used_xobject_names>>
       ELSE UNCHANGED <<lines, current_line, used_xobject_names, inline_image_index, scratch>>
    /\ pc' = pc
    /\ UNCHANGED <<file, idx, page_xobject_markers, out_vars, fn_vars, host, rival>>

\* lines 159-166: resources no operator drew, in the map's iteration order
AppendUnusedMarkers ==
    /\ pc = "ops"
    /\ op_i = Len(ThisOps)
    /\ \E order \in Orderings(DOMAIN page_xobject_markers \ used_xobject_names) :
          lines' = lines \o ConcatMarkers(page_xobject_markers, order)
    /\ pc' = "page_end"
    /\ UNCHANGED <<file, scratch, idx, op_i, current_line, inline_image_index,
                   page_xobject_markers, used_xobject_names, out_vars, fn_vars, host, rival>>

\* lines 169-170
EndPage ==
    /\ pc = "page_end"
    /\ raw_page_lines' = Append(raw_page_lines, flush_line(lines, current_line))
    /\ current_line' = <<>>
    /\ idx' = idx + 1
    /\ pc' = "page"
    /\ UNCHANGED <<file, scratch, op_i, lines, inline_image_index, page_xobject_markers,
                   used_xobject_names, cleaned_page_lines, pages, result, chapters, fn_vars, host, rival>>

\* lines 173-188
AssemblePages ==
    /\ pc = "page"
    /\ idx = Len(file.pages)
    /\ cleaned_page_lines' = clean_page_lines(raw_page_lines)
    /\ pages' = assemble_pages(clean_page_lines(raw_page_lines))
    /\ result' = "Ok"
    /\ pc' = "returned"
    /\ UNCHANGED <<file, scratch, walk_vars, raw_page_lines, chapters, fn_vars, host, rival>>

\* lines 191-203: parse_all, after extract_text_by_page returned
parse_all ==
    /\ pc = "returned"
    /\ chapters' = IF result = "Ok" THEN parse_all_chapters(pages) ELSE chapters
    /\ pc' = "done"
    /\ UNCHANGED <<file, scratch, walk_vars, raw_page_lines, cleaned_page_lines,
                   pages, result, fn_vars, host, rival>>

Next ==
    \/ ClearScratch
    \/ ExtractWithSystemTools
    \/ OpenFile
    \/ BeginPage
    \/ WalkOp
    \/ AppendUnusedMarkers
    \/ EndPage
    \/ AssemblePages
    \/ parse_all

Spec == Init /\ [][Next]_vars

---------------------------------------------------------------------------
(* Two callers of extract_text_by_page on the same file path.  The image   *)
(* output directory is derived from the path alone (lines 949-961) and no  *)
(* lock is taken, so both callers clear and fill the same directory.  The  *)
(* first caller is the walk above; the second one takes the same steps a   *)
(* page at a time, and only what it does to the directory is kept.         *)

\* the files the inline images of a page leave in the directory (lines 143-154)
RECURSIVE InlineFilesFrom(_, _, _, _)
InlineFilesFrom(ops, i, n, page_label) ==
    IF i > Len(ops) THEN {}
    ELSE IF ops[i].op = "InlineImage"
    THEN build_image_marker(ops[i].image, page_label,
             <<"i","n","l","i","n","e">> \o Dec(n)).files
         \cup InlineFilesFrom(ops, i + 1, n + 1, page_label)
    ELSE InlineFilesFrom(ops, i + 1, n, page_label)

\* every file one page makes extract_text_by_page write (lines 109 and 143-154)
PageFiles(page, page_label) ==
    collect_page_image_markers(page, page_label).files
    \cup (IF page.contents[1].ops_ok
          THEN InlineFilesFrom(page.contents[1].ops, 1, 0, page_label)
          ELSE {})

RivalPagePool == {PgProse, PgFigures, PgUndrawn, PgBadPage}

RivalFiles ==
    {[openable |-> FALSE, pages |-> <<>>]}
    \cup {[openable |-> TRUE, pages |-> ps] :
              ps \in UNION {[1..n -> RivalPagePool] : n \in 1..MaxPages}}

RivalHosts ==
    {[spawn_ok |-> <<FALSE, FALSE>>, success |-> FALSE, stdout |-> <<>>],
     [spawn_ok |-> <<TRUE, TRUE>>, success |-> TRUE,
      stdout |-> <<"a","b","\r","\n","\n","4","2","\n","\f">>]}

InitRivals ==
    /\ pc = "start"
    /\ file \in RivalFiles
    /\ host \in RivalHosts
    /\ scratch = {StaleFile}
    /\ idx = 0
    /\ op_i = 0
    /\ lines = <<>>
    /\ current_line = <<>>
    /\ inline_image_index = 0
    /\ page_xobject_markers = <<>>
    /\ used_xobject_names = {}
    /\ raw_page_lines = <<>>
    /\ cleaned_page_lines = <<>>
    /\ pages = <<>>
    /\ result = "none"
    /\ chapters = <<>>
    /\ fn_in = <<>>
    /\ fn_out = <<>>
    /\ rival = NoRival

rival_others == <<pc, file, host, walk_vars, out_vars, fn_vars>>

\* lines 71-73, second caller
RivalClearScratch ==
    /\ rival.pc = "idle"
    /\ scratch' = {}
    /\ rival' = [rival EXCEPT !.pc = "tool", !.began = pc]
    /\ UNCHANGED rival_others

\* lines 75-98, second caller: the tool's answer is returned, else the file is opened
RivalOpenFile ==
    /\ rival.pc = "tool"
    /\ rival' = IF extract_with_system_tools(host) # None \/ ~file.openable
                THEN [rival EXCEPT !.pc = "returned", !.ended = pc]
                ELSE [rival EXCEPT !.pc = "walk"]
    /\ UNCHANGED <<scratch, rival_others>>

\* lines 103-171, second caller: one page
RivalWalkPage ==
    /\ rival.pc = "walk"
    /\ rival.idx < Len(file.pages)
    /\ LET page == file.pages[rival.idx + 1] IN
       IF ~page.page_ok
       THEN /\ rival' = [rival EXCEPT !.pc = "returned", !.ended = pc]
            /\ scratch' = scratch
       ELSE IF page.contents = None
       THEN /\ rival' = [rival EXCEPT !.idx = @ + 1]
            /\ scratch' = scratch
       ELSE /\ scratch' = scratch \cup PageFiles(page, page_idx_label(rival.idx))
            /\ rival' = IF page.contents[1].ops_ok
                        THEN [rival EXCEPT !.idx = @ + 1]
                        ELSE [rival EXCEPT !.pc = "returned", !.ended = pc]
    /\ UNCHANGED rival_others

\* lines 173-188, second caller
RivalAssemblePages ==
    /\ rival.pc = "walk"
    /\ rival.idx = Len(file.pages)
    /\ rival' = [rival EXCEPT !.pc = "returned", !.ended = pc]
    /\ UNCHANGED <<scratch, rival_others>>

NextRivals ==
    \/ ClearScratch
    \/ ExtractWithSystemTools
    \/ OpenFile
    \/ BeginPage
    \/ WalkOp
    \/ AppendUnusedMarkers
    \/ EndPage
    \/ AssemblePages
    \/ parse_all
    \/ RivalClearScratch
    \/ RivalOpenFile
    \/ RivalWalkPage
    \/ RivalAssemblePages

SpecRivals == InitRivals /\ [][NextRivals]_vars

---------------------------------------------------------------------------
(* Specifications of the pure functions: Init draws the arguments, one     *)
(* action applies the function.  The variables of the walk stay idle.      *)

Idle ==
    /\ file = [openable |-> FALSE, pages |-> <<>>]
    /\ host = [spawn_ok |-> <<FALSE, FALSE>>, success |-> FALSE, stdout |-> <<>>]
    /\ scratch = {}
    /\ idx = 0
    /\ op_i = 0
    /\ lines = <<>>
    /\ current_line = <<>>
    /\ inline_image_index = 0
    /\ page_xobject_markers = <<>>
    /\ used_xobject_names = {}
    /\ raw_page_lines = <<>>
    /\ cleaned_page_lines = <<>>
    /\ pages = <<>>
    /\ result = "none"
    /\ chapters = <<>>
    /\ rival = NoRival

idle_vars == <<file, host, scratch, walk_vars, out_vars, rival>>

\* the non-empty strings over `alphabet` of at most n characters that start and
\* end with a non-whitespace character: what Trim leaves of a non-blank line
TrimmedStrings(alphabet, n) ==
    {t \in UNION {[1..k -> alphabet] : k \in 1..n} :
        t[1] \notin Whitespace /\ t[Len(t)] \notin Whitespace}

MaxCurrentLen == 3     \* characters of the accumulator handed to append_pdf_line_to_paragraph
MaxLineLen == 3        \* characters of the line handed to it
MaxCollapseLen == 6    \* characters of a line handed to collapse_spaced_uppercase_letters

AppendInputs ==
    [fn : {"append_pdf_line_to_paragraph"},
     current : TrimmedStrings({"a", "-", " "}, MaxCurrentLen),
     line : TrimmedStrings({"a", "B", "-", " ", EAcute}, MaxLineLen)]

CollapseInputs ==
    [fn : {"collapse_spaced_uppercase_letters"},
     input : TrimmedStrings({"A", "B", "c", " "}, MaxCollapseLen)
                 \cup { <<"K","i","m","i"," ","K","2"," ","T"," ","E"," ","C"," ","H"," ","N"," ","I"," ","C"," ","A"," ","L"," ","R"," ","E"," ","P"," ","O"," ","R"," ","T">> }]

MaxPrefixLen == 4      \* letters before the tail of a collapsed word

\* collapsed words: a prefix of letters before a heading suffix or another tail
HeadingTails ==
    {HeadingSuffixes[k] : k \in 1..Len(HeadingSuffixes)}
        \cup { <<"R","E","P","O","R","T","E","D">>, <<"A","B","C">> }
HeadingInputs ==
    [fn : {"split_merged_uppercase_heading_word"},
     word : {pre \o tail : pre \in UNION {[1..n -> {"X", "S"}] : n \in 0..MaxPrefixLen},
                           tail \in HeadingTails}]

MaxTokens == 3         \* tokens of a paragraph handed to normalize_pdf_paragraph_text

TokenPool ==
    { <<"I","n","t","r">>,
      <<"o","d","u","c","t","i","o","n">>,
      <<"d","e">>,
      <<"v">>,
      <<"e","l","o","p","m","e","n","t">>,
      <<"e","l","o">>,
      <<"o","f">>,
      <<"L","a","r">>,
      <<"g","e">>,
      <<"T","h","e">>,
      <<"o","d","u","c","t","i","o","n",".">>,
      <<"1">> }
ParagraphInputs ==
    { [fn |-> "normalize_pdf_paragraph_text", tokens |-> toks, text |-> Join(toks, sep)] :
        toks \in UNION {[1..n -> TokenPool] : n \in 1..MaxTokens},
        sep \in {<<" ">>, <<" ", "\n">>} }
    \cup { [fn |-> "normalize_pdf_paragraph_text", tokens |-> toks, text |-> Join(toks, <<" ">>)] :
              toks \in [1..2 -> {<<"T","h","i","s">>, <<"S","o","m","e">>, <<"i","s">>,
                                 <<"o","f">>, <<"h","u">>, <<"w","i","t","h">>}] }

\* lines 738-754
looks_like_figure_or_table_caption(line) ==
    LET trimmed == Trim(line)
        lower == to_ascii_lowercase(trimmed)
        starts_with_caption ==
            \/ StartsWith(lower, <<"f","i","g","u","r","e">>)
            \/ StartsWith(lower, <<"f","i","g",".">>)
            \/ StartsWith(lower, <<"f","i","g"," ">>)
            \/ StartsWith(lower, <<"t","a","b","l","e">>)
            \/ StartsWith(trimmed, <<CjkFigure>>)
            \/ StartsWith(trimmed, <<CjkTable>>)
    IN IF trimmed = <<>> THEN FALSE
       ELSE IF ~starts_with_caption THEN FALSE
       ELSE AnyChar(trimmed, AsciiDigit)

\* lines 720-729: the loop over the lines; taken counts the markers handed out
RECURSIVE MergeAfterCaptions(_, _, _, _)
MergeAfterCaptions(ls, markers, k, taken) ==
    IF k > Len(ls) THEN [merged |-> <<>>, taken |-> taken]
    ELSE LET is_caption == looks_like_figure_or_table_caption(ls[k])
             gives == is_caption /\ taken < Len(markers)
             rest == MergeAfterCaptions(ls, markers, k + 1, IF gives THEN taken + 1 ELSE taken)
         IN [merged |-> (IF gives THEN <<ls[k], markers[taken + 1]>> ELSE <<ls[k]>>)
                            \o rest.merged,
             taken |-> rest.taken]

\* insert_markers_after_captions without the loop of lines 731-733
insert_markers_after_captions_dropping_the_rest(ls, markers) ==
    IF markers = <<>> THEN ls
    ELSE IF \A k \in 1..Len(ls) : ~looks_like_figure_or_table_caption(ls[k])
    THEN ls \o markers
    ELSE MergeAfterCaptions(ls, markers, 1, 0).merged

\* lines 694-736: the new value of `lines`
insert_markers_after_captions(ls, markers) ==
    IF markers = <<>> THEN ls
    ELSE IF \A k \in 1..Len(ls) : ~looks_like_figure_or_table_caption(ls[k])
    THEN ls \o markers
    ELSE LET got == MergeAfterCaptions(ls, markers, 1, 0)
         IN got.merged \o SubSeq(markers, got.taken + 1, Len(markers))

MaxCaptionLines == 3   \* lines handed to insert_markers_after_captions
MaxMarkers == 3        \* image tokens handed to it

CaptionLinePool ==
    { <<"F","i","g","u","r","e"," ","1">>,
      <<" ","F","I","G"," ","2",":">>,
      <<"T","a","b","l","e">>,
      <<CjkTable, "3">>,
      <<"x","y"," ","4">> }

NumberedMarker(k) ==
    MarkerOf(PathJoin(image_output_dir, <<"p","1","_","I","m">> \o Dec(k) \o <<"_","5",".","j","p","g">>))

CaptionInputs ==
    [fn : {"insert_markers_after_captions"},
     lines : UNION {[1..n -> CaptionLinePool] : n \in 0..MaxCaptionLines},
     markers : {[k \in 1..n |-> NumberedMarker(k)] : n \in 0..MaxMarkers}]

\* (byte >> bit) & 1
BitOf(byte, bit) == (byte \div (2 ^ bit)) % 2

\* lines 1212-1220: the two loops, at bit `bit` of byte k (1-based) of input;
\* most_significant_first is the order `(0..8).rev()` walks the bits in
RECURSIVE ExpandFrom(_, _, _, _, _, _)
ExpandFrom(input, target_pixels, k, step, out, most_significant_first) ==
    IF k > Len(input) THEN out
    ELSE IF step = 8 THEN ExpandFrom(input, target_pixels, k + 1, 0, out, most_significant_first)
    ELSE IF Len(out) >= target_pixels THEN out
    ELSE LET bit == IF most_significant_first THEN 7 - step ELSE step
             v == IF BitOf(input[k], bit) = 1 THEN 255 ELSE 0
         IN ExpandFrom(input, target_pixels, k, step + 1, Append(out, v), most_significant_first)

\* expand_mono_bitmap walking the bits of a byte from the least significant
expand_mono_bitmap_least_significant_first(input, target_pixels) ==
    ExpandFrom(input, target_pixels, 1, 0, <<>>, FALSE)

expand_mono_bitmap(input, target_pixels) ==
    ExpandFrom(input, target_pixels, 1, 0, <<>>, TRUE)

MaxMonoBytes == 2      \* bytes handed to expand_mono_bitmap
MaxMonoPixels == 17    \* target pixel count handed to it

BytePool == {0, 1, 128, 165, 255}

MonoInputs ==
    [fn : {"expand_mono_bitmap"},
     input : UNION {[1..n -> BytePool] : n \in 0..MaxMonoBytes},
     target_pixels : 0..MaxMonoPixels]

MaxSide == 2           \* width and height of an image
MaxDataLen == 6        \* bytes of its raw and of its decoded data

ImagePool ==
    [raw_ok : {TRUE}, pixels_ok : {TRUE}, write_ok : {TRUE},
     filter : {"DCTDecode", "JPXDecode", "JBIG2Decode", "FlateDecode"},
     color_space : {None, Some("DeviceRGB"), Some("DeviceGray"), Some("DeviceCMYK")},
     bits_per_component : {None, Some(1), Some(4), Some(8)},
     width : 0..MaxSide, height : 1..MaxSide, data_len : 0..MaxDataLen]
    \cup {[ImgGray EXCEPT !.height = 0], ImgUnreadable, ImgUndecodable, ImgNoWrite}

ImageInputs == [fn : {"build_image_marker"}, image : ImagePool]

MaxTabularTokens == 3  \* tokens of a line handed to is_tabular_line

\* tokens with a letter, a digit, or both, separated by runs of 1, 2 or 4 spaces
TabularInputs ==
    { [fn |-> "is_tabular_line", line |-> l] :
        l \in UNION { { Join([k \in 1..(2 * n - 1) |->
                               IF k % 2 = 1 THEN toks[(k + 1) \div 2]
                               ELSE Rep(" ", gaps[k \div 2])], <<>>) :
                         toks \in [1..n -> {<<"a","b">>, <<"1","2">>, <<"x","9">>, <<"c">>}],
                         gaps \in [1..(n - 1) -> {1, 2, 4}] } :
                      n \in 1..MaxTabularTokens } }

InitText ==
    /\ pc = "call"
    /\ fn_in \in AppendInputs \cup CollapseInputs \cup HeadingInputs \cup ParagraphInputs
                  \cup CaptionInputs \cup ImageInputs \cup MonoInputs \cup TabularInputs
    /\ fn_out = <<>>
    /\ Idle

CallAppend ==
    /\ pc = "call"
    /\ fn_in.fn = "append_pdf_line_to_paragraph"
    /\ fn_out' = append_pdf_line_to_paragraph(fn_in.current, fn_in.line)
    /\ pc' = "ret"
    /\ UNCHANGED <<fn_in, idle_vars>>

CallCollapse ==
    /\ pc = "call"
    /\ fn_in.fn = "collapse_spaced_uppercase_letters"
    /\ fn_out' = collapse_spaced_uppercase_letters(fn_in.input)
    /\ pc' = "ret"
    /\ UNCHANGED <<fn_in, idle_vars>>

CallSplitHeading ==
    /\ pc = "call"
    /\ fn_in.fn = "split_merged_uppercase_heading_word"
    /\ fn_out' = split_merged_uppercase_heading_word(fn_in.word)
    /\ pc' = "ret"
    /\ UNCHANGED <<fn_in, idle_vars>>

CallIsTabular ==
    /\ pc = "call"
    /\ fn_in.fn = "is_tabular_line"
    /\ fn_out' = is_tabular_line(fn_in.line)
    /\ pc' = "ret"
    /\ UNCHANGED <<fn_in, idle_vars>>

CallNormalizeParagraph ==
    /\ pc = "call"
    /\ fn_in.fn = "normalize_pdf_paragraph_text"
    /\ fn_out' = normalize_pdf_paragraph_text(fn_in.text)
    /\ pc' = "ret"
    /\ UNCHANGED <<fn_in, idle_vars>>

CallInsertMarkers ==
    /\ pc = "call"
    /\ fn_in.fn = "insert_markers_after_captions"
    /\ fn_out' = insert_markers_after_captions(fn_in.lines, fn_in.markers)
    /\ pc' = "ret"
    /\ UNCHANGED <<fn_in, idle_vars>>

CallBuildImageMarker ==
    /\ pc = "call"
    /\ fn_in.fn = "build_image_marker"
    /\ fn_out' = build_image_marker(fn_in.image, page_idx_label(0), NameIm1)
    /\ pc' = "ret"
    /\ UNCHANGED <<fn_in, idle_vars>>

CallExpandMono ==
    /\ pc = "call"
    /\ fn_in.fn = "expand_mono_bitmap"
    /\ fn_out' = expand_mono_bitmap(fn_in.input, fn_in.target_pixels)
    /\ pc' = "ret"
    /\ UNCHANGED <<fn_in, idle_vars>>

NextText ==
    \/ CallIsTabular
    \/ CallExpandMono
    \/ CallBuildImageMarker
    \/ CallAppend
    \/ CallCollapse
    \/ CallSplitHeading
    \/ CallNormalizeParagraph
    \/ CallInsertMarkers

SpecText == InitText /\ [][NextText]_vars

\* split_pdf_paragraphs on a page of cleaned lines
MaxSplitLines == 4

TabularRow1 == <<"a"," "," ","b"," "," ","c","1">>
TabularRow2 == <<"e"," "," ","f"," "," ","g","2">>
SampleMarker == MarkerOf(PathJoin(image_output_dir, <<"p","1","_","I","m","1","_","5",".","j","p","g">>))

SplitLinePool ==
    { TabularRow1, TabularRow2, SampleMarker,
      <<"x","y">>, <<"e","n","d",".">>, <<"h","u","-">>,
      <<"I","n","t","r"," ","o","d","u","c","t","i","o","n">> }

\* line lists around the length limit of a paragraph, and after each of the
\* terminal punctuation marks
SplitLimitInputs ==
    { << Rep("x", MaxParagraphLen - 3), <<"x","y">>, <<"x","y">> >>,
      << Rep("x", MaxParagraphLen - 2), <<"x","y">>, <<"x","y">> >>,
      << Rep(EAcute, MaxParagraphLen \div 2), <<"x","y">>, <<"x","y">> >>,
      << Rep("x", MaxParagraphLen + 1), TabularRow1 >> }
    \cup { << <<"s","o",mark>>, <<"x","y">> >> : mark \in {"!", "?", ":", ";"} }
    \cup { << <<"o"," "," ","k"," "," ","g","o",mark>>, TabularRow2 >> : mark \in {".", ":"} }

InitSplit ==
    /\ pc = "call"
    /\ fn_in \in [fn : {"split_pdf_paragraphs"},
                  lines : UNION {[1..n -> SplitLinePool] : n \in 0..MaxSplitLines}
                              \cup SplitLimitInputs]
    /\ fn_out = <<>>
    /\ Idle

CallSplit ==
    /\ pc = "call"
    /\ fn_in.fn = "split_pdf_paragraphs"
    /\ fn_out' = split_pdf_paragraphs(fn_in.lines)
    /\ pc' = "ret"
    /\ UNCHANGED <<fn_in, idle_vars>>

NextSplit == CallSplit

SpecSplit == InitSplit /\ [][NextSplit]_vars

\* clean_page_lines on a whole document of raw pages, then the assembly of
\* every page, as at lines 173-179
MaxCleanPages == 4

Hdr == <<"h","d","r">>
HdrPadded == <<"\t","h","d","r"," ">>
Long90 == Rep("y", MaxNoiseLineLen)
Long91 == Rep("x", MaxNoiseLineLen + 1)
Wide46 == Rep(EAcute, (MaxNoiseLineLen \div 2) + 1)
Digits24 == Rep("2", MaxPageNumberLen)
Digits25 == Rep("1", MaxPageNumberLen + 1)

RawPagePool ==
    { <<>>,
      << Hdr, SampleMarker, <<"4","2">> >>,
      << <<"x","y">>, <<"3"," ","/"," ","1","0">>, <<"P","a","g","e"," ","7">>, HdrPadded, <<"e","n","d",".">> >>,
      << Long90, Long91, Wide46 >>,
      << Digits25, <<>>, Digits24, SampleMarker >>,
      << <<"h","u","-">>, SampleMarker, Hdr, SampleMarker, <<"x","y">> >> }

\* documents with a page made of blank lines and page numbers only
EmptiedPageInputs ==
    { << << <<" ", "\t">>, <<"7">> >>, << Hdr, <<"x","y">> >> >>,
      << << Hdr >>, << <<"P","a","g","e"," ","2">> >>, << HdrPadded, <<"x","y">>, <<"x","y">> >> >> }

InitClean ==
    /\ pc = "call"
    /\ fn_in \in [fn : {"clean_page_lines"},
                  page_lines : UNION {[1..n -> RawPagePool] : n \in 0..MaxCleanPages}
                                   \cup EmptiedPageInputs]
    /\ fn_out = <<>>
    /\ Idle

CallClean ==
    /\ pc = "call"
    /\ fn_in.fn = "clean_page_lines"
    /\ fn_out' = [cleaned |-> clean_page_lines(fn_in.page_lines), pages |-> <<>>]
    /\ pc' = "cleaned"
    /\ UNCHANGED <<fn_in, idle_vars>>

CallAssemble ==
    /\ pc = "cleaned"
    /\ fn_out' = [fn_out EXCEPT !.pages = assemble_pages(fn_out.cleaned)]
    /\ pc' = "ret"
    /\ UNCHANGED <<fn_in, idle_vars>>

NextClean == CallClean \/ CallAssemble

SpecClean == InitClean /\ [][NextClean]_vars

---------------------------------------------------------------------------
(* Properties.                                                             *)

Contains(s, sub) == \E j \in 1..(Len(s) - Len(sub) + 1) : SubSeq(s, j, j + Len(sub) - 1) = sub
CountIn(seq, x) == Cardinality({k \in 1..Len(seq) : seq[k] = x})
ElementsOf(seq) == {seq[k] : k \in 1..Len(seq)}

\* C1: whenever extract_text_by_page returns Ok the page list is non-empty and
\* every page has at least one paragraph; a page whose cleaned line list is
\* empty holds exactly the placeholder, and a document with no pages is
\* returned as the single page "Page 1" holding the placeholder.
C1_EveryPageHasAParagraph ==
    result = "Ok" =>
        /\ pages # <<>>
        /\ \A p \in 1..Len(pages) : pages[p].paragraphs # <<>>
        /\ cleaned_page_lines # <<>> =>
              /\ Len(pages) = Len(cleaned_page_lines)
              /\ \A p \in 1..Len(pages) :
                    cleaned_page_lines[p] = <<>> => pages[p].paragraphs = <<PLACEHOLDER>>
        /\ cleaned_page_lines = <<>> =>
              pages = <<[title |-> <<"P","a","g","e"," ","1">>, paragraphs |-> <<PLACEHOLDER>>]>>

\* a file of two pages returned with a placeholder page beside a page of text
C1_Witness ==
    /\ result = "Ok"
    /\ Len(pages) = 2
    /\ cleaned_page_lines[1] = <<>>
    /\ pages[1].paragraphs = <<PLACEHOLDER>>
    /\ cleaned_page_lines[2] # <<>>

Numerals ==
    << <<"1">>, <<"2">>, <<"3">>, <<"4">>, <<"5">>, <<"6">>, <<"7">>, <<"8">>, <<"9">>,
       <<"1","0">>, <<"1","1">>, <<"1","2">>, <<"1","3">> >>

\* C2: the chapter tuples of parse_all are numbered contiguously in output
\* order: the tuple at 0-based position i has order index i, label "Page i+1"
\* and identifier "page<i+1>".
C2_ChaptersNumberedContiguously ==
    (pc = "done" /\ result = "Ok") =>
        /\ Len(chapters) = Len(pages)
        /\ \A k \in 1..Len(chapters) :
              /\ chapters[k].order_index = k - 1
              /\ chapters[k].title = <<"P","a","g","e"," ">> \o Numerals[k]
              /\ chapters[k].href = <<"p","a","g","e">> \o Numerals[k]
              /\ chapters[k].paragraphs = pages[k].paragraphs

\* parse_all returned the chapters of the long file, past "page10"
C2_Witness ==
    /\ pc = "done"
    /\ result = "Ok"
    /\ Len(chapters) > 10
    /\ chapters[11].href = <<"p","a","g","e","1","1">>

PageFails(pg) == ~pg.page_ok \/ (pg.contents # None /\ ~pg.contents[1].ops_ok)

\* C3: in the native path a page whose page object or content stream cannot be
\* read does not abort the extraction: the run returns Ok whenever the
\* document opens.
C3_PageFailureDoesNotAbort ==
    (pc = "returned" /\ file.openable) => result = "Ok"

\* the operator about to be replayed is an image that cannot be resolved
AtUnresolvedImage ==
    /\ pc = "ops"
    /\ op_i < Len(ThisOps)
    /\ LET op == ThisOps[op_i + 1] IN
       \/ op.op = "InlineImage" /\ op.image \in UnresolvableImages
       \/ /\ op.op = "XObject"
          /\ op.name \in DOMAIN ThisPage.xobjects
          /\ LET got == Resolve(ThisPage.xobjects[op.name]) IN
             /\ got # None
             /\ got[1].kind = "Image"
             /\ got[1].image \in UnresolvableImages

AtInlineImage == pc = "ops" /\ op_i < Len(ThisOps) /\ ThisOps[op_i + 1].op = "InlineImage"

\* C4: an image that cannot be resolved produces no token and no error:
\* build_image_marker returns None for it, the step that meets it leaves the line list, the accumulator and the scratch
\* directory as they are, the walk goes on to the next operator with the
\* inline-image counter advanced as for any inline image, no resource name maps
\* to an empty token list, and a file whose pages can all be read returns Ok.
C4_UnresolvedImageIsDropped ==
    /\ [][AtUnresolvedImage =>
             /\ lines' = lines
             /\ current_line' = current_line
             /\ scratch' = scratch
             /\ result' = result
             /\ pc' = "ops"
             /\ op_i' = op_i + 1
             /\ inline_image_index' =
                    inline_image_index + (IF AtInlineImage THEN 1 ELSE 0)]_vars
    /\ [](\A img \in UnresolvableImages :
              build_image_marker(img, page_idx_label(idx), NameIm1) = NoMarker)
    /\ [](\A n \in DOMAIN page_xobject_markers : page_xobject_markers[n] # <<>>)
    /\ []((pc = "returned" /\ file.openable
              /\ \A p \in 1..Len(file.pages) : ~PageFails(file.pages[p]))
           => result = "Ok")

\* the walk has just passed an unresolved image with text pending and a token
\* already in the line list
C4_Witness ==
    /\ pc = "ops"
    /\ op_i >= 1
    /\ LET op == ThisOps[op_i] IN
       \/ op.op = "InlineImage" /\ op.image \in UnresolvableImages
       \/ op.op = "XObject" /\ op.name = NameIm2
    /\ current_line # <<>>
    /\ \E k \in 1..Len(lines) : is_pdf_image_marker(lines[k])

IsTokenLine(l) == is_pdf_image_marker(normalize_whitespace(l))
TokensOfLines(ls) ==
    LET toks == SelectSeq(ls, IsTokenLine) IN [k \in 1..Len(toks) |-> normalize_whitespace(toks[k])]

\* C5: image tokens pass the noise filter and the paragraph assembler intact:
\* on every page the sequence of token paragraphs equals the sequence of token
\* lines of the page's input, and every paragraph that holds the token prefix
\* is exactly one of the page's input tokens (not merged with text, not split),
\* however often the token repeats at page edges.
C5_ImageTokensSurviveIntact ==
    (pc = "ret" /\ fn_in.fn = "clean_page_lines") =>
        /\ Len(fn_out.pages) = Len(fn_in.page_lines) \/ fn_in.page_lines = <<>>
        /\ \A p \in 1..Len(fn_in.page_lines) :
              /\ SelectSeq(fn_out.pages[p].paragraphs, is_pdf_image_marker)
                    = TokensOfLines(fn_in.page_lines[p])
              /\ SelectSeq(fn_out.cleaned[p], is_pdf_image_marker)
                    = TokensOfLines(fn_in.page_lines[p])
              /\ \A k \in 1..Len(fn_out.pages[p].paragraphs) :
                    Contains(fn_out.pages[p].paragraphs[k], PDF_IMAGE_MARKER_PREFIX)
                        => fn_out.pages[p].paragraphs[k] \in ElementsOf(TokensOfLines(fn_in.page_lines[p]))

\* the same token sits at an edge of four pages, next to text, and is returned
C5_Witness ==
    /\ pc = "ret"
    /\ fn_in.fn = "clean_page_lines"
    /\ Len(fn_in.page_lines) >= MinNoisePages
    /\ edge_counts(fn_in.page_lines, SampleMarker) >= MinNoiseSeen
    /\ \E p \in 1..Len(fn_out.pages) :
          /\ CountIn(fn_out.pages[p].paragraphs, SampleMarker) = 2
          /\ Len(fn_out.pages[p].paragraphs) > 2

\* the positions named by the words first, second, second-to-last and last
IsEdgeIndex(i, n) == i \in {0, 1, n - 2, n - 1}
OccurrencesOf(doc, l) == {pos \in LinePositions(doc) : NormalizedAt(doc, pos) = l}
EdgeOccurrencesOf(doc, l) ==
    {pos \in OccurrencesOf(doc, l) : IsEdgeIndex(pos[2], Len(doc[pos[1]]))}
TextLinesOf(doc) ==
    {NormalizedAt(doc, pos) : pos \in LinePositions(doc)}
        \ ({<<>>} \cup {l \in {NormalizedAt(doc, pos) : pos \in LinePositions(doc)} :
                            is_pdf_image_marker(l)})
RepeatsAtEdges(doc, l) ==
    /\ Len(doc) >= 4
    /\ Cardinality(OccurrencesOf(doc, l)) >= 3
    /\ 2 * Cardinality(EdgeOccurrencesOf(doc, l)) >= Cardinality(OccurrencesOf(doc, l))

OnlyDigits(s) == s # <<>> /\ \A k \in 1..Len(s) : s[k] \in AsciiDigit
PageThenDigits(s) ==
    /\ Len(s) > 5
    /\ SubSeq(s, 1, 5) = <<"P","a","g","e"," ">>
    /\ OnlyDigits(Trim(SubSeq(s, 6, Len(s))))
DigitsSlashDigits(s) ==
    \E k \in 1..Len(s) :
        /\ s[k] = "/"
        /\ OnlyDigits(Trim(SubSeq(s, 1, k - 1)))
        /\ OnlyDigits(Trim(SubSeq(s, k + 1, Len(s))))
PageNumberShape(s) == OnlyDigits(s) \/ PageThenDigits(s) \/ DigitsSlashDigits(s)

\* C7 as stated: a line with a page-number shape (only digits, "Page " and
\* digits, digits "/" digits) is removed from every page whatever its length.
C7_PageNumberShapeAlwaysRemoved ==
    (pc = "cleaned" /\ fn_in.fn = "clean_page_lines") =>
        \A p \in 1..Len(fn_out.cleaned) : \A k \in 1..Len(fn_out.cleaned[p]) :
            ~PageNumberShape(fn_out.cleaned[p][k])

\* C7 amended: a line with a page-number shape that is at most 24 bytes long
\* is removed from every page, whatever its frequency, its position and the
\* number of pages.
C7_ShortPageNumberShapeRemoved ==
    (pc = "cleaned" /\ fn_in.fn = "clean_page_lines") =>
        \A p \in 1..Len(fn_out.cleaned) : \A k \in 1..Len(fn_out.cleaned[p]) :
            ~(PageNumberShape(fn_out.cleaned[p][k])
                /\ StrLen(fn_out.cleaned[p][k]) <= MaxPageNumberLen)

\* a one-page document with "Page 7" in the middle of the page and "3 / 10"
\* at its edge comes back without either
C7_Witness ==
    /\ pc = "cleaned"
    /\ fn_in.fn = "clean_page_lines"
    /\ Len(fn_in.page_lines) = 1
    /\ Len(fn_in.page_lines[1]) = 5
    /\ fn_in.page_lines[1][3] = <<"P","a","g","e"," ","7">>
    /\ PageNumberShape(fn_in.page_lines[1][2])
    /\ Len(fn_out.cleaned[1]) = 3

\* C8: when two adjacent lines handed to split_pdf_paragraphs are both
\* tabular, some emitted paragraph holds the two rows joined by a newline,
\* whatever closes that paragraph.
C8_TabularRowsStayNewlineSeparated ==
    (pc = "ret" /\ fn_in.fn = "split_pdf_paragraphs") =>
        \A k \in 1..(Len(fn_in.lines) - 1) :
            (is_tabular_line(fn_in.lines[k]) /\ is_tabular_line(fn_in.lines[k + 1])) =>
                \E q \in 1..Len(fn_out) :
                    Contains(fn_out[q], <<"\n">>)

\* C9: appending a line to a non-empty accumulator: if the accumulator ends in
\* "-" and the line starts with a lowercase ASCII letter the result is the
\* accumulator without its last character followed by the line; otherwise it
\* is the accumulator, one space, and the line.
C9_HyphenationAwareJoin ==
    (pc = "ret" /\ fn_in.fn = "append_pdf_line_to_paragraph") =>
        LET acc == fn_in.current
            line == fn_in.line
        IN IF acc[Len(acc)] = "-" /\ line[1] \in AsciiLower
           THEN fn_out = SubSeq(acc, 1, Len(acc) - 1) \o line
           ELSE fn_out = acc \o <<" ">> \o line

\* "a-" and "a" were joined to "aa", and "a-" and "B" to "a- B"
C9_Witness ==
    /\ pc = "ret"
    /\ fn_in.fn = "append_pdf_line_to_paragraph"
    /\ fn_in.current = <<"a","-">>
    /\ \/ fn_in.line = <<"a">> /\ fn_out = <<"a","a">>
       \/ fn_in.line = <<"B">> /\ fn_out = <<"a","-"," ","B">>

\* a token made of one uppercase letter: the letter stands between spaces or
\* the ends of the string
IsSingleUpperToken(chars, i) ==
    /\ i \in 1..Len(chars)
    /\ chars[i] \in AsciiUpper
    /\ i = 1 \/ chars[i - 1] = " "
    /\ i = Len(chars) \/ chars[i + 1] = " "
\* the number of single-letter tokens, one space apart, from position i on
RunLetters(chars, i) ==
    CHOOSE n \in 0..Len(chars) :
        /\ \A m \in 0..(n - 1) : IsSingleUpperToken(chars, i + 2 * m)
        /\ ~IsSingleUpperToken(chars, i + 2 * n)
IsRunStart(chars, i) ==
    IsSingleUpperToken(chars, i) /\ ~IsSingleUpperToken(chars, i - 2)
\* the start of the run of 3 or more tokens that covers position i, or 0
CoveringRun(chars, i) ==
    LET starts == {j \in 1..i : /\ IsRunStart(chars, j)
                                /\ RunLetters(chars, j) >= 3
                                /\ i <= j + 2 * (RunLetters(chars, j) - 1)}
    IN IF starts = {} THEN 0 ELSE CHOOSE j \in starts : TRUE
ClaimedPiece(chars, i) ==
    LET j == CoveringRun(chars, i) IN
    IF j = 0 THEN <<chars[i]>>
    ELSE IF j = i
         THEN split_merged_uppercase_heading_word(
                  [m \in 1..RunLetters(chars, i) |-> chars[i + 2 * (m - 1)]])
         ELSE <<>>
RECURSIVE ClaimedPieces(_, _, _)
ClaimedPieces(chars, lo, hi) ==
    IF lo > hi THEN <<>>
    ELSE IF lo = hi THEN ClaimedPiece(chars, lo)
    ELSE ClaimedPieces(chars, lo, (lo + hi) \div 2)
            \o ClaimedPieces(chars, (lo + hi) \div 2 + 1, hi)
ClaimedCollapse(chars) == ClaimedPieces(chars, 1, Len(chars))

\* C10: collapse_spaced_uppercase_letters replaces each run of 3 or more
\* single uppercase-letter tokens one space apart by their letters and copies
\* every other character, the space after a run and the letters of adjacent
\* words included.
C10_CollapseChangesNothingElse ==
    (pc = "ret" /\ fn_in.fn = "collapse_spaced_uppercase_letters") =>
        fn_out = ClaimedCollapse(fn_in.input)

\* the heading suffixes as the claim lists them
RecognizedSuffixes ==
    { <<"R","E","P","O","R","T">>,
      <<"A","B","S","T","R","A","C","T">>,
      <<"I","N","T","R","O","D","U","C","T","I","O","N">>,
      <<"C","O","N","C","L","U","S","I","O","N">>,
      <<"C","O","N","C","L","U","S","I","O","N","S">>,
      <<"M","E","T","H","O","D">>,
      <<"M","E","T","H","O","D","S">>,
      <<"R","E","S","U","L","T">>,
      <<"R","E","S","U","L","T","S">>,
      <<"P","A","P","E","R">>,
      <<"A","P","P","E","N","D","I","X">> }
\* the suffixes a word ends with, leaving at least `least` characters before
SuffixesOf(word, least) ==
    {suf \in RecognizedSuffixes :
        /\ Len(word) >= Len(suf) + least
        /\ SubSeq(word, Len(word) - Len(suf) + 1, Len(word)) = suf}
SplitBefore(word, suf) ==
    SubSeq(word, 1, Len(word) - Len(suf)) \o <<" ">> \o suf

\* C11 as stated: a collapsed word that ends with a recognized heading suffix
\* after a non-empty prefix gets one space between prefix and suffix, for
\* every prefix length; any other word is returned unchanged.
C11_SuffixSplitForEveryPrefixLength ==
    (pc = "ret" /\ fn_in.fn = "split_merged_uppercase_heading_word") =>
        IF SuffixesOf(fn_in.word, 1) # {}
        THEN \E suf \in SuffixesOf(fn_in.word, 1) : fn_out = SplitBefore(fn_in.word, suf)
        ELSE fn_out = fn_in.word

\* C11 amended: the space is inserted when the prefix before the suffix has at
\* least 4 characters; a word with a shorter prefix, or with no recognized
\* suffix, is returned unchanged.
C11_SuffixSplitAfterLongPrefix ==
    (pc = "ret" /\ fn_in.fn = "split_merged_uppercase_heading_word") =>
        IF SuffixesOf(fn_in.word, 4) # {}
        THEN \E suf \in SuffixesOf(fn_in.word, 4) : fn_out = SplitBefore(fn_in.word, suf)
        ELSE fn_out = fn_in.word

\* "XSXSRESULTS" came back as "XSXS RESULTS"
C11_Witness ==
    /\ pc = "ret"
    /\ fn_in.fn = "split_merged_uppercase_heading_word"
    /\ fn_in.word = <<"X","S","X","S">> \o <<"R","E","S","U","L","T","S">>
    /\ fn_out = <<"X","S","X","S"," ">> \o <<"R","E","S","U","L","T","S">>

IsLetters(w) == w # <<>> /\ \A k \in 1..Len(w) : w[k] \in AsciiUpper \cup AsciiLower
Stopwords ==
    { <<"a">>, <<"a","n">>, <<"a","n","d">>, <<"a","s">>, <<"a","t">>, <<"b","y">>,
      <<"f","o","r">>, <<"f","r","o","m">>, <<"i","n">>, <<"i","n","t","o">>,
      <<"i","s">>, <<"i","t">>, <<"o","f">>, <<"o","n">>, <<"o","r">>,
      <<"t","h","e">>, <<"t","o">>, <<"w","i","t","h">> }
IsStopword(w) == to_ascii_lowercase(w) \in Stopwords
BodySplit(l, r) == Len(l) + Len(r) >= 6 /\ Len(r) >= 4
TitleSplit(l, r) == l[1] \in AsciiUpper /\ Len(r) <= 3 /\ Len(l) + Len(r) >= 5

\* the two conditions in the claim's words
StatedTwo(l, r) ==
    /\ IsLetters(l) /\ Len(l) \in 2..4 /\ ~IsStopword(l)
    /\ r[1] \in AsciiLower
    /\ BodySplit(l, r) \/ TitleSplit(l, r)
StatedThree(a, b, c) ==
    /\ IsLetters(a) /\ Len(a) \in 2..3 /\ ~IsStopword(a)
    /\ IsLetters(b) /\ Len(b) = 1
    /\ IsLetters(c) /\ Len(c) >= 3 /\ c[1] \in AsciiLower

\* the conditions with what the code adds: the second token of a pair is made
\* of 2 or more letters, the three tokens have 7 or more letters together
AmendedTwo(l, r) == StatedTwo(l, r) /\ IsLetters(r) /\ Len(r) >= 2
AmendedThree(a, b, c) == StatedThree(a, b, c) /\ Len(a) + Len(b) + Len(c) >= 7

\* one left-to-right pass over the tokens of the input: a pair or a triple that
\* meets the condition becomes one word and the pass goes on behind it
RECURSIVE RepairPass(_, _, _)
RepairPass(toks, k, amended) ==
    IF k > Len(toks) THEN <<>>
    ELSE IF k + 1 <= Len(toks)
            /\ (IF amended THEN AmendedTwo(toks[k], toks[k + 1])
                           ELSE StatedTwo(toks[k], toks[k + 1]))
         THEN <<toks[k] \o toks[k + 1]>> \o RepairPass(toks, k + 2, amended)
    ELSE IF k + 2 <= Len(toks)
            /\ (IF amended THEN AmendedThree(toks[k], toks[k + 1], toks[k + 2])
                           ELSE StatedThree(toks[k], toks[k + 1], toks[k + 2]))
         THEN <<toks[k] \o toks[k + 1] \o toks[k + 2]>> \o RepairPass(toks, k + 3, amended)
    ELSE <<toks[k]>> \o RepairPass(toks, k + 1, amended)

\* C12 as stated: the result is the tokens of the text, a pair merged exactly
\* when (2-4 letters, no stopword)+(lowercase-started) is a body or title
\* split, a triple exactly when it has the shape (2-3 letters, no
\* stopword)+(1 letter)+(3 or more letters, lowercase-started), every other
\* token kept, joined by single spaces.
C12_SplitWordRepairAsStated ==
    (pc = "ret" /\ fn_in.fn = "normalize_pdf_paragraph_text") =>
        fn_out = Join(RepairPass(fn_in.tokens, 1, FALSE), <<" ">>)

\* C12 amended: as stated, where the second token of a merged pair is an
\* alphabetic token of 2 or more letters and the three tokens of a merged
\* triple have 7 or more letters together.
C12_SplitWordRepair ==
    (pc = "ret" /\ fn_in.fn = "normalize_pdf_paragraph_text") =>
        fn_out = Join(RepairPass(fn_in.tokens, 1, TRUE), <<" ">>)

\* "Intr oduction" became "Introduction", "de v elopment" became "development"
C12_Witness ==
    /\ pc = "ret"
    /\ fn_in.fn = "normalize_pdf_paragraph_text"
    /\ \/ fn_in.tokens = <<<<"I","n","t","r">>, <<"o","d","u","c","t","i","o","n">>>> /\ fn_out = <<"I","n","t","r","o","d","u","c","t","i","o","n">>
       \/ fn_in.tokens = <<<<"d","e">>, <<"v">>, <<"e","l","o","p","m","e","n","t">>>> /\ fn_out = <<"d","e","v","e","l","o","p","m","e","n","t">>

\* the line lists the end-of-scope fallback can leave, one per iteration order
FallbackOutcomes ==
    {lines \o ConcatMarkers(page_xobject_markers, order) :
        order \in Orderings(DOMAIN page_xobject_markers \ used_xobject_names)}

\* C13: extraction is deterministic: where the walk of a page ends and the
\* fallback appends the resources that were never drawn, the same file gives
\* one line list, so two runs return the same paragraphs in the same order.
C13_ExtractionIsDeterministic ==
    (pc = "ops" /\ op_i = Len(ThisOps)) => Cardinality(FallbackOutcomes) = 1

\* C14: when a run returns, every image token among the returned paragraphs
\* names a file that the run wrote to the scratch directory after clearing
\* it, that is still there and is not empty.
C14_TokensNameNonEmptyFiles ==
    (pc = "returned" /\ result = "Ok") =>
        \A p \in 1..Len(pages) : \A k \in 1..Len(pages[p].paragraphs) :
            is_pdf_image_marker(pages[p].paragraphs[k]) =>
                \E f \in scratch :
                    /\ pages[p].paragraphs[k] = PDF_IMAGE_MARKER_PREFIX \o f.path \o <<"]","]">>
                    /\ f.size > 0
                    /\ f # StaleFile

\* pdftotext was started and exited successfully
ToolAnswers == (host.spawn_ok[1] \/ host.spawn_ok[2]) /\ host.success

\* the form-feed separated pages of the tool's output that hold some text
ToolPages ==
    LET segments == SplitOn(host.stdout, "\f", <<>>, <<>>)
        blank(seg) == \A i \in 1..Len(SegmentLines(seg)) : Trim(SegmentLines(seg)[i]) = <<>>
        Keep(k) == ~blank(segments[k])
    IN [k \in 1..Cardinality({j \in 1..Len(segments) : Keep(j)}) |->
           SegmentLines(segments[KthSmallest({j \in 1..Len(segments) : Keep(j)}, k)])]

\* C15: the external tool is optional and taken wholesale.  When pdftotext
\* cannot be started or exits unsuccessfully, the run raises no error on that
\* account and returns what the native walk of every page gives; when it
\* succeeds, the run returns Ok with the pages of its output alone and the
\* native walk never starts.
C15_ToolIsOptionalAndWholesale ==
    /\ ToolAnswers => pc \notin {"open", "page", "ops", "page_end"}
    /\ (pc = "returned" /\ ToolAnswers) =>
           /\ result = "Ok"
           /\ idx = 0 /\ scratch = {}
           /\ raw_page_lines = ToolPages
           /\ pages = assemble_pages(clean_page_lines(ToolPages))
    /\ (pc = "returned" /\ ~ToolAnswers) =>
           /\ result # "Ok" => (~file.openable \/ (idx < Len(file.pages) /\ PageFails(file.pages[idx + 1])))
           /\ result = "Ok" => (file.openable /\ idx = Len(file.pages)
                                 /\ Len(raw_page_lines) = Len(file.pages))

\* pdftotext was started and failed, and the native walk returned the pages
C15_Witness ==
    /\ pc = "returned"
    /\ host.spawn_ok[2] /\ ~host.success
    /\ result = "Ok"
    /\ Len(file.pages) = 2
    /\ scratch # {}

\* the file of an image found at form depth d carries one of these in its name
FormLevelTags(d) ==
    { <<"f","o","r","m","_","i","n","l","i","n","e","_">> \o Dec(d) \o <<"_">>,
      <<"_","f","o","r","m","_">> \o Dec(d) \o <<"_">> }

ReplayedAtLevel(d) == \E f \in scratch : \E tag \in FormLevelTags(d) : Contains(f.path, tag)

\* the page being walked draws on the form that replays itself
PageHasCyclicForm ==
    /\ pc = "ops"
    /\ ThisPage.resources_ok
    /\ \E n \in DOMAIN ThisPage.xobjects : ThisPage.xobjects[n] = "form"

\* C16: the form-resolution walk ends on every resource graph, a form that
\* replays itself included: a page-level form is entered at depth 0, each
\* nested form one level deeper, and at depth 6 nothing is examined, so the
\* self-referential form is replayed at the depths 0 to 5 and no deeper.
C16_FormWalkIsDepthBounded ==
    /\ \A d \in 6..9 : ~ReplayedAtLevel(d)
    /\ PageHasCyclicForm =>
           /\ \A d \in 0..5 : ReplayedAtLevel(d)
           /\ \A n \in DOMAIN ThisPage.xobjects : ThisPage.xobjects[n] = "form" =>
                  /\ n \in DOMAIN page_xobject_markers
                  /\ Len(page_xobject_markers[n]) = 6

\* the walk of the self-referential form has ended, five levels down
C16_Witness == PageHasCyclicForm /\ ReplayedAtLevel(5)

\* C17: on an inline-image operator the current-line accumulator is flushed
\* before the image token is pushed: the accumulator is empty afterwards, and
\* text that was pending becomes a line that precedes the token.
C17_InlineImageFlushesFirst ==
    [][AtInlineImage =>
          /\ current_line' = <<>>
          /\ Trim(current_line) # <<>> =>
                 /\ Len(lines') > Len(lines)
                 /\ ~is_pdf_image_marker(lines'[Len(lines) + 1])]_vars

IsNormalizedLine(l) ==
    /\ l # <<>>
    /\ l[1] \notin Whitespace /\ l[Len(l)] \notin Whitespace
    /\ \A i \in 1..Len(l) : l[i] \notin {"\t", "\r", "\n", NBSP}
    /\ ~Contains(l, <<" ", " ">>)

AllTextNormalized(ls) ==
    \A i \in 1..Len(ls) : ~is_pdf_image_marker(ls[i]) => IsNormalizedLine(ls[i])

\* the operator about to be replayed flushes the accumulator
AtFlush ==
    /\ pc = "ops"
    /\ op_i < Len(ThisOps)
    /\ \/ ThisOps[op_i + 1].op = "TextNewline"
       \/ /\ ThisOps[op_i + 1].op = "XObject"
          /\ ThisOps[op_i + 1].name \in DOMAIN page_xobject_markers

\* C18: every text line flush_line pushes is normalized: non-empty, without
\* leading or trailing whitespace, without tab, carriage return, newline or
\* non-breaking space, and without two consecutive spaces; after a flush the
\* accumulator is empty, and an empty accumulator pushes no text line.
C18_FlushedLinesAreNormalized ==
    [][/\ pc' \in {"ops", "page_end"} => AllTextNormalized(lines')
       /\ (pc = "page_end" /\ pc' = "page") =>
              /\ AllTextNormalized(raw_page_lines'[Len(raw_page_lines')])
              /\ current_line' = <<>>
              /\ Trim(current_line) = <<>> => raw_page_lines'[Len(raw_page_lines')] = lines
       /\ AtFlush =>
              /\ current_line' = <<>>
              /\ Trim(current_line) = <<>> =>
                     \A i \in (Len(lines) + 1)..Len(lines') : is_pdf_image_marker(lines'[i])]_vars

\* the operator about to be replayed draws the resource n
AtDraw(n) ==
    /\ pc = "ops"
    /\ op_i < Len(ThisOps)
    /\ ThisOps[op_i + 1].op = "XObject"
    /\ ThisOps[op_i + 1].name = n

DrawnOnPage(n) ==
    \E k \in 1..Len(ThisOps) : ThisOps[k].op = "XObject" /\ ThisOps[k].name = n

DrawNames == UNION {DOMAIN pg.xobjects : pg \in PagePool \cup GeneratedPages} \cup {NameA}

\* C19: on a page with a content stream every resource name resolved to image
\* tokens contributes them to the page's lines: at each draw operator naming
\* it, after the pending text line was flushed, and once through the fallback
\* at the end of the stream if no operator names it; a drawn name is not
\* appended again, and drawing a name without tokens flushes and pushes nothing.
C19_ResolvedNamesContributeTheirTokens ==
    [][/\ \A n \in DrawNames : AtDraw(n) =>
              IF n \in DOMAIN page_xobject_markers
              THEN LET p == IF Trim(current_line) # <<>> THEN 1 ELSE 0 IN
                   /\ Len(lines') = Len(lines) + p + Len(page_xobject_markers[n])
                   /\ SubSeq(lines', 1, Len(lines)) = lines
                   /\ p = 1 => ~is_pdf_image_marker(lines'[Len(lines) + 1])
                   /\ SubSeq(lines', Len(lines) + p + 1, Len(lines')) = page_xobject_markers[n]
                   /\ current_line' = <<>>
              ELSE lines' = lines /\ current_line' = current_line
       /\ (pc = "ops" /\ pc' = "page_end") =>
              LET added == SubSeq(lines', Len(lines) + 1, Len(lines')) IN
              /\ SubSeq(lines', 1, Len(lines)) = lines
              /\ \A n \in DOMAIN page_xobject_markers :
                     \A t \in ElementsOf(page_xobject_markers[n]) :
                        /\ CountIn(added, t) =
                              IF DrawnOnPage(n) THEN 0 ELSE CountIn(page_xobject_markers[n], t)
                        /\ CountIn(lines', t) >= 1
              /\ \A x \in ElementsOf(added) :
                     \E n \in DOMAIN page_xobject_markers :
                        ~DrawnOnPage(n) /\ x \in ElementsOf(page_xobject_markers[n])]_vars

\* a page whose stream is replayed: one resolved name was drawn after pending
\* text, another was never drawn and came in through the fallback
C19_Witness ==
    /\ pc = "page_end"
    /\ \E n, m \in DOMAIN page_xobject_markers :
          /\ n \in used_xobject_names /\ m \notin used_xobject_names
          /\ ElementsOf(page_xobject_markers[n]) \cup ElementsOf(page_xobject_markers[m])
                 \subseteq ElementsOf(lines)
    /\ \E i \in 1..Len(lines) : ~is_pdf_image_marker(lines[i])

\* the lines are prose: none of them is a tabular row
ProseOnly(ls) == \A k \in 1..Len(ls) : ~is_tabular_line(Trim(ls[k]))

\* the lines i..j merged into one paragraph, before any repair
RECURSIVE RawJoin(_, _, _)
RawJoin(ls, i, j) ==
    IF i = j THEN normalize_pdf_line_text(Trim(ls[i]))
    ELSE append_pdf_line_to_paragraph(RawJoin(ls, i, j - 1), normalize_pdf_line_text(Trim(ls[j])))

\* the paragraph is what the split-word repair makes of some run of lines
PassedThroughRepair(paragraph, ls) ==
    \E i \in 1..Len(ls) : \E j \in i..Len(ls) :
        /\ \A k \in i..j : ~is_pdf_image_marker(Trim(ls[k]))
        /\ paragraph = normalize_pdf_paragraph_text(RawJoin(ls, i, j))

\* C20: every prose paragraph split_pdf_paragraphs emits has passed through
\* the split-word repair, whatever closed it: a sentence end, the length
\* limit, a tabular transition, an image token, a blank line or the end of
\* the page.
C20_EveryClosingRepairsSplitWords ==
    (pc = "ret" /\ fn_in.fn = "split_pdf_paragraphs" /\ ProseOnly(fn_in.lines)) =>
        \A k \in 1..Len(fn_out) :
            (~is_pdf_image_marker(fn_out[k]) /\ fn_out[k] # PLACEHOLDER) =>
                PassedThroughRepair(fn_out[k], fn_in.lines)

TerminalMarks == {".", "!", "?", ":"}

\* the accumulator and the paragraphs before line k of ls is handled
SplitStateBefore(ls, k) ==
    SplitLines([paragraphs |-> <<>>, current |-> <<>>, current_is_table |-> FALSE],
               SubSeq(ls, 1, k - 1))

\* the line may join the accumulator: same tabular class, and for prose no
\* terminal mark at the end of the accumulator and no more than 800 in it
MayJoin(current, current_is_table, line) ==
    /\ is_tabular_line(line) = current_is_table
    /\ ~current_is_table =>
           /\ current[Len(current)] \notin TerminalMarks
           /\ StrLen(current) <= 800

\* line k of ls is a text line that meets a non-empty accumulator
MeetsAccumulator(ls, k) ==
    /\ SplitStateBefore(ls, k).current # <<>>
    /\ Trim(ls[k]) # <<>>
    /\ ~is_pdf_image_marker(Trim(ls[k]))

\* line k joined the accumulator: no paragraph was emitted for it
Appended(ls, k) ==
    SplitStateBefore(ls, k + 1).paragraphs = SplitStateBefore(ls, k).paragraphs

EndsInTerminalMark(current) == current[Len(current)] \in TerminalMarks

\* the boundary rule at line k
BoundaryRuleAt(ls, k) ==
    LET before == SplitStateBefore(ls, k)
        after == SplitStateBefore(ls, k + 1)
        line == Trim(ls[k])
        text == normalize_pdf_line_text(line)
    IN IF MayJoin(before.current, before.current_is_table, line)
       THEN /\ after.paragraphs = before.paragraphs
            /\ after.current_is_table = before.current_is_table
            /\ after.current \in
                   { before.current \o <<"\n">> \o text,
                     before.current \o <<" ">> \o text,
                     SubSeq(before.current, 1, Len(before.current) - 1) \o text }
       ELSE /\ Len(after.paragraphs) = Len(before.paragraphs) + 1
            /\ after.current = text
            /\ after.current_is_table = is_tabular_line(line)

\* C21 as stated: a text line is merged into the non-empty accumulator only if
\* both have the same tabular class and, for prose, the accumulator does not
\* end in '.', '!', '?' or ':' and is not longer than 800; otherwise the
\* accumulator is emitted and the line starts the next paragraph; a tabular
\* and a prose line never share a paragraph, and no line at all is appended
\* after terminal punctuation.
C21_NoLineAfterTerminalMark ==
    (pc = "ret" /\ fn_in.fn = "split_pdf_paragraphs") =>
        \A k \in 1..Len(fn_in.lines) : MeetsAccumulator(fn_in.lines, k) =>
            /\ BoundaryRuleAt(fn_in.lines, k)
            /\ Appended(fn_in.lines, k) =>
                   /\ is_tabular_line(Trim(fn_in.lines[k]))
                          = SplitStateBefore(fn_in.lines, k).current_is_table
                   /\ ~EndsInTerminalMark(SplitStateBefore(fn_in.lines, k).current)

\* C21: the same boundary rule, a tabular and a prose line never sharing a
\* paragraph, and no line appended to a prose accumulator that ends in
\* terminal punctuation; a tabular row is appended to a tabular accumulator
\* whatever that ends in.
C21_ParagraphBoundaryRule ==
    (pc = "ret" /\ fn_in.fn = "split_pdf_paragraphs") =>
        \A k \in 1..Len(fn_in.lines) : MeetsAccumulator(fn_in.lines, k) =>
            /\ BoundaryRuleAt(fn_in.lines, k)
            /\ Appended(fn_in.lines, k) =>
                   /\ is_tabular_line(Trim(fn_in.lines[k]))
                          = SplitStateBefore(fn_in.lines, k).current_is_table
                   /\ \/ SplitStateBefore(fn_in.lines, k).current_is_table
                      \/ ~EndsInTerminalMark(SplitStateBefore(fn_in.lines, k).current)

\* a prose accumulator ending in ':' closed its paragraph, and one of exactly
\* 800 still took a line
C21_Witness ==
    /\ pc = "ret"
    /\ fn_in.fn = "split_pdf_paragraphs"
    /\ \/ /\ Len(fn_in.lines) = 3
          /\ StrLen(SplitStateBefore(fn_in.lines, 3).current) = 800
          /\ Len(fn_out) = 1
       \/ /\ fn_in.lines = << <<"s","o",":">>, <<"x","y">> >>
          /\ fn_out = << <<"s","o",":">>, <<"x","y">> >>

\* the occurrences of l on page p of doc
OccurrencesOnPage(doc, l, p) == {pos \in OccurrencesOf(doc, l) : pos[1] = p}

\* all the conditions of the frequency filter hold of l, its length in characters
NoiseConditions(doc, l) == RepeatsAtEdges(doc, l) /\ Len(l) <= 90

\* every occurrence of l is kept
KeptEverywhere(doc, cleaned, l) ==
    \A p \in 1..Len(cleaned) :
        CountIn(cleaned[p], l) = Cardinality(OccurrencesOnPage(doc, l, p))

\* C22: the frequency filter removes nothing else: a non-blank text line that
\* is not page-number shaped is kept unless the document has at least 4
\* pages, the line has at most 90 characters, occurs at least 3 times and has
\* half or more of its occurrences at edge positions; nothing is removed as
\* noise from a document of 3 pages or fewer, and a line of at most 90
\* characters is not exempted because of its byte length.
C22_NoiseFilterRemovesNothingElse ==
    (pc = "cleaned" /\ fn_in.fn = "clean_page_lines") =>
        \A l \in TextLinesOf(fn_in.page_lines) : ~is_probable_page_number(l) =>
            /\ ~NoiseConditions(fn_in.page_lines, l) =>
                   KeptEverywhere(fn_in.page_lines, fn_out.cleaned, l)
            /\ Len(fn_in.page_lines) <= 3 =>
                   KeptEverywhere(fn_in.page_lines, fn_out.cleaned, l)
            /\ NoiseConditions(fn_in.page_lines, l) =>
                   ~KeptEverywhere(fn_in.page_lines, fn_out.cleaned, l)

\* sub is seq with some elements left out, the others in their order
IsSubsequence(sub, seq) ==
    \E S \in SUBSET (1..Len(seq)) :
        /\ Cardinality(S) = Len(sub)
        /\ \A k \in 1..Len(sub) : sub[k] = seq[KthSmallest(S, k)]

\* C23: the noise filter only filters: clean_page_lines returns as many pages
\* as it was given, in the same order, and each output page is a subsequence
\* of the whitespace-normalized lines of the same input page; a page that
\* loses all its lines stays in the list as an empty page.
C23_NoiseFilterOnlyFilters ==
    (pc = "cleaned" /\ fn_in.fn = "clean_page_lines") =>
        /\ Len(fn_out.cleaned) = Len(fn_in.page_lines)
        /\ \A p \in 1..Len(fn_in.page_lines) :
               IsSubsequence(fn_out.cleaned[p],
                             [i \in 1..Len(fn_in.page_lines[p]) |->
                                 normalize_whitespace(fn_in.page_lines[p][i])])

\* the first page lost its blank line and its page number and is still there
C23_Witness ==
    /\ pc = "cleaned"
    /\ Len(fn_in.page_lines) = 2
    /\ Len(fn_in.page_lines[1]) = 2
    /\ fn_out.cleaned = << <<>>, << Hdr, <<"x","y">> >> >>

\* the pages of the document as the strategy taken sees them: pdftotext ends
\* the text of every page with a form feed
DocumentPageCount ==
    IF ToolAnswers THEN CountIn(host.stdout, "\f") ELSE Len(file.pages)

\* C24: a page with no readable lines is not left out: when a run returns Ok
\* for a document of at least one page, the output holds one tuple for every
\* page of the document, in page order and labelled "Page k" for the k-th
\* page, and a page left with no lines holds exactly the placeholder, in
\* whichever strategy produced the lines.
C24_NoPageIsOmitted ==
    (pc = "returned" /\ result = "Ok" /\ DocumentPageCount >= 1) =>
        /\ Len(pages) = DocumentPageCount
        /\ \A k \in 1..Len(pages) :
               /\ pages[k].title = <<"P","a","g","e"," ">> \o Dec(k)
               /\ pages[k].paragraphs # <<>>
               /\ (k <= Len(cleaned_page_lines) /\ cleaned_page_lines[k] = <<>>) =>
                      pages[k].paragraphs = <<PLACEHOLDER>>

\* seq without the elements that satisfy the test, the others in their order
Without(seq, Test(_)) == SelectSeq(seq, LAMBDA x : ~Test(x))

\* the positions of the image tokens in seq, in order
MarkerPositions(seq) ==
    LET S == {i \in 1..Len(seq) : is_pdf_image_marker(seq[i])}
    IN [k \in 1..Cardinality(S) |-> KthSmallest(S, k)]

\* a caption as the claim lists it: Figure, Fig., Table, or one of the two
\* CJK characters at the start, and a digit somewhere
ListedCaption(line) ==
    LET t == to_ascii_lowercase(Trim(line)) IN
    /\ \/ StartsWith(t, <<"f","i","g","u","r","e">>)
       \/ StartsWith(t, <<"f","i","g",".">>)
       \/ StartsWith(t, <<"t","a","b","l","e">>)
       \/ StartsWith(t, <<CjkFigure>>)
       \/ StartsWith(t, <<CjkTable>>)
    /\ AnyChar(t, AsciiDigit)

\* a caption with "Fig" followed by a space admitted as well
AmendedCaption(line) ==
    \/ ListedCaption(line)
    \/ /\ StartsWith(to_ascii_lowercase(Trim(line)), <<"f","i","g"," ">>)
       /\ AnyChar(Trim(line), AsciiDigit)

\* lines and markers are conserved, and marker i follows caption i
PlacedAfterCaptions(ls, markers, out, amended) ==
    LET IsCap(l) == IF amended THEN AmendedCaption(l) ELSE ListedCaption(l)
        caps == {i \in 1..Len(ls) : IsCap(ls[i])}
        k == Cardinality(caps)
        at == MarkerPositions(out)
    IN /\ Without(out, is_pdf_image_marker) = ls
       /\ [i \in 1..Len(at) |-> out[at[i]]] = markers
       /\ \A i \in 1..Len(markers) :
              IF i <= k
              THEN \* i lines precede and follow caption i: it sits right after it
                   at[i] = KthSmallest(caps, i) + i
              ELSE at[i] = Len(ls) + i

\* C25 as stated: insert_markers_after_captions keeps every line and every
\* marker once, each in its relative order; with k caption lines (starting
\* with Figure, Fig., Table or one of the CJK characters, and holding a digit)
\* marker i, for i up to k, stands right after caption i and the markers
\* beyond the k-th stand at the end.
C25_MarkersPlacedAfterListedCaptions ==
    (pc = "ret" /\ fn_in.fn = "insert_markers_after_captions") =>
        PlacedAfterCaptions(fn_in.lines, fn_in.markers, fn_out, FALSE)

\* C25: the same with a caption being a line that starts, in any letter case,
\* with Figure, Fig., Fig followed by a space, or Table, or with one of the
\* CJK characters, and holds a digit.
C25_MarkersPlacedAfterCaptions ==
    (pc = "ret" /\ fn_in.fn = "insert_markers_after_captions") =>
        PlacedAfterCaptions(fn_in.lines, fn_in.markers, fn_out, TRUE)

\* two captions and three markers: one after each caption, the third at the end
C25_Witness ==
    /\ pc = "ret"
    /\ fn_in.fn = "insert_markers_after_captions"
    /\ fn_in.lines = << <<"F","i","g","u","r","e"," ","1">>, <<"T","a","b","l","e">>, <<CjkTable, "3">> >>
    /\ fn_out = << <<"F","i","g","u","r","e"," ","1">>, NumberedMarker(1), <<"T","a","b","l","e">>,
                   <<CjkTable, "3">>, NumberedMarker(2), NumberedMarker(3) >>

\* the color space and the bits per component the encoder goes by: a missing
\* color space counts as RGB, missing bits per component as 8
EffectiveFormat(image) ==
    << IF image.color_space = None THEN "DeviceRGB" ELSE image.color_space[1],
       IF image.bits_per_component = None THEN 8 ELSE image.bits_per_component[1] >>

\* the decoded data holds a sample for every pixel (three for RGB, a bit for
\* a 1-bit image)
EnoughSamples(image) ==
    LET f == EffectiveFormat(image) IN
    IF f = <<"DeviceRGB", 8>> THEN image.data_len >= image.width * image.height * 3
    ELSE IF f = <<"DeviceGray", 8>> THEN image.data_len >= image.width * image.height
    ELSE 8 * image.data_len >= image.width * image.height

\* the one file written has the extension ext and the token names it
WroteFile(out, ext) ==
    /\ out.marker # None
    /\ Cardinality(out.files) = 1
    /\ \A f \in out.files :
           /\ EndsWith(f.path, ext)
           /\ out.marker[1] = PDF_IMAGE_MARKER_PREFIX \o f.path \o <<"]","]">>

\* C26: codec dispatch: a DCT or JPX stream is written as it is, with its own
\* length, under .jpg or .jp2; a JBIG2 image gives no token; any other image
\* is written as PNG only when its format is (RGB, 8), (gray, 8) or (gray, 1),
\* width and height are not zero and the decoded data holds a sample for
\* every pixel; every other combination gives no token and no file.
C26_CodecDispatch ==
    (pc = "ret" /\ fn_in.fn = "build_image_marker"
        /\ fn_in.image.raw_ok /\ fn_in.image.pixels_ok /\ fn_in.image.write_ok) =>
        LET image == fn_in.image IN
        CASE image.filter = "DCTDecode" ->
                /\ WroteFile(fn_out, <<".","j","p","g">>)
                /\ \A f \in fn_out.files : f.size = image.data_len
          [] image.filter = "JPXDecode" ->
                /\ WroteFile(fn_out, <<".","j","p","2">>)
                /\ \A f \in fn_out.files : f.size = image.data_len
          [] image.filter = "JBIG2Decode" ->
                fn_out.marker = None /\ fn_out.files = {}
          [] OTHER ->
                IF /\ EffectiveFormat(image) \in
                          {<<"DeviceRGB", 8>>, <<"DeviceGray", 8>>, <<"DeviceGray", 1>>}
                   /\ image.width # 0 /\ image.height # 0
                   /\ EnoughSamples(image)
                THEN WroteFile(fn_out, <<".","p","n","g">>)
                ELSE fn_out.marker = None /\ fn_out.files = {}

\* a 1-bit gray image of 2 x 2 pixels in one byte of data became a PNG
C26_Witness ==
    /\ pc = "ret"
    /\ fn_in.fn = "build_image_marker"
    /\ fn_in.image.filter = "FlateDecode"
    /\ EffectiveFormat(fn_in.image) = <<"DeviceGray", 1>>
    /\ fn_in.image.width = 2 /\ fn_in.image.height = 2 /\ fn_in.image.data_len = 1
    /\ WroteFile(fn_out, <<".","p","n","g">>)

\* bit j (0 the least significant) of a byte, by its binary digits
BinaryDigit(byte, j) ==
    LET digits == [b \in 0..7 |->
                      IF byte - (2 ^ (b + 1)) * (byte \div (2 ^ (b + 1))) >= 2 ^ b THEN 1 ELSE 0]
    IN digits[j]

\* C27: expand_mono_bitmap returns min(n, 8 * len(input)) samples, sample k
\* (from 0) being 255 if bit 7 - (k mod 8) of byte k div 8 is 1 and 0 if not;
\* encode_pdf_image_png gives no image when a 1-bit image expands to fewer
\* than width * height samples.
C27_MonoExpansion ==
    /\ (pc = "ret" /\ fn_in.fn = "expand_mono_bitmap") =>
           /\ Len(fn_out) = IF fn_in.target_pixels < 8 * Len(fn_in.input)
                            THEN fn_in.target_pixels ELSE 8 * Len(fn_in.input)
           /\ \A k \in 0..(Len(fn_out) - 1) :
                  fn_out[k + 1] =
                      IF BinaryDigit(fn_in.input[(k \div 8) + 1], 7 - (k % 8)) = 1
                      THEN 255 ELSE 0
    /\ (pc = "ret" /\ fn_in.fn = "build_image_marker"
           /\ fn_in.image.filter = "FlateDecode"
           /\ EffectiveFormat(fn_in.image) = <<"DeviceGray", 1>>
           /\ 8 * fn_in.image.data_len < fn_in.image.width * fn_in.image.height) =>
           fn_out.marker = None /\ fn_out.files = {}

\* the byte 10100101 followed by 128, cut after 10 pixels
C27_Witness ==
    /\ pc = "ret"
    /\ fn_in.fn = "expand_mono_bitmap"
    /\ fn_in.input = <<165, 128>>
    /\ fn_in.target_pixels = 10
    /\ fn_out = <<255, 0, 255, 0, 0, 255, 0, 255, 255, 0>>

---------------------------------------------------------------------------
\* the image tokens of the returned pages each name a file of the directory
TokensNameFiles ==
    \A p \in 1..Len(pages) : \A k \in 1..Len(pages[p].paragraphs) :
        is_pdf_image_marker(pages[p].paragraphs[k]) =>
            \E f \in scratch : pages[p].paragraphs[k] = MarkerOf(f.path)

\* the second caller has not called yet, or had returned before the first one began
RunsNeverOverlapped == rival.pc = "idle" \/ rival.ended = "start"

\* C28: two calls on the same file path share one image directory without a
\* lock.  When the calls do not overlap, a call that returns Ok returns only
\* image tokens whose files are in the directory at that moment; the witness
\* is the interleaving in which the second call clears the directory while
\* the first is walking, and the first then returns a token whose file is gone.
C28_SerialRunsReturnExistingFiles ==
    [][(pc # "returned" /\ pc' = "returned" /\ result' = "Ok" /\ RunsNeverOverlapped)
          => TokensNameFiles']_vars

C28_Witness ==
    /\ pc = "returned"
    /\ result = "Ok"
    /\ rival.began \in {"page", "ops", "page_end"}
    /\ rival.pc \in {"tool", "walk"}
    /\ rival.idx = 0
    /\ ~TokensNameFiles

---------------------------------------------------------------------------
\* the maximal runs of two or more consecutive spaces of a line
WideSpaceRuns(l) ==
    {i \in 1..(Len(l) - 1) : l[i] = " " /\ l[i + 1] = " " /\ (i = 1 \/ l[i - 1] # " ")}

TokensWith(l, chars) ==
    LET toks == SplitWhitespace(l)
    IN Cardinality({k \in 1..Len(toks) : AnyChar(toks[k], chars)})

\* C29: is_tabular_line answers true exactly when the line has at least two
\* separate runs of two or more spaces, or at least two tokens with a letter
\* and at least two tokens with a digit, whatever the length of the line (so
\* a line with one run of spaces and fewer than two numeric tokens is not tabular).
C29_TabularClassification ==
    (pc = "ret" /\ fn_in.fn = "is_tabular_line") =>
        (fn_out <=> (\/ Cardinality(WideSpaceRuns(fn_in.line)) >= 2
                     \/ /\ TokensWith(fn_in.line, AsciiAlpha) >= 2
                        /\ TokensWith(fn_in.line, AsciiDigit) >= 2))

---------------------------------------------------------------------------
\* the tokens joined again, with a space after token k exactly when k is in cuts
RECURSIVE JoinWithCuts(_, _, _)
JoinWithCuts(toks, cuts, k) ==
    IF k > Len(toks) THEN <<>>
    ELSE toks[k] \o (IF k \in cuts THEN <<" ">> ELSE <<>>) \o JoinWithCuts(toks, cuts, k + 1)

\* token k keeps a space on both of its sides
StandsAlone(toks, cuts, k) ==
    /\ k = 1 \/ (k - 1) \in cuts
    /\ k = Len(toks) \/ k \in cuts

\* C30: in the output of normalize_pdf_paragraph_text, a token of the input
\* that is a common short word (a, an, and, as, at, by, for, from, in, into,
\* is, it, of, on, or, the, to, with; any case) is never concatenated with the
\* token on its left or on its right.
C30_StopwordsAreNeverAbsorbed ==
    (pc = "ret" /\ fn_in.fn = "normalize_pdf_paragraph_text") =>
        \E cuts \in SUBSET (1..(Len(fn_in.tokens) - 1)) :
            /\ fn_out = JoinWithCuts(fn_in.tokens, cuts, 1)
            /\ \A k \in 1..Len(fn_in.tokens) :
                   is_common_short_word(fn_in.tokens[k]) => StandsAlone(fn_in.tokens, cuts, k)

====
